---- MODULE Spec2Model ----
(***************************************************************************)
(* Model of the invoice scanner (pocFactura_legacy):                       *)
(*   Document_Scanner/invoice_scanner_pro.py  - registry, ledger, GUI      *)
(*   src/invoice_core/matcher.py              - matching with arbitration  *)
(*   src/invoice_core/gemini_patcher.py       - the AI arbiter             *)
(*   src/invoice_core/cli_standardize.py      - the command line pipeline  *)
(*                                                                         *)
(* Text is modelled as a sequence of one-character strings, so that        *)
(* lower(), substring search and Python's lexicographic comparison are     *)
(* computed and not assumed.  Floats are modelled as tenths (12.5 is 125)  *)
(* together with the IEEE not-a-number value; every quantity of the model  *)
(* is exactly representable, so float addition is exact.                   *)
(***************************************************************************)
EXTENDS Integers, Sequences, FiniteSets, TLC

VARIABLES pc, file, data, csv_dir, docs_tree, clock, runs, last, cli, arbiter,
          sorting, running

vars == <<pc, file, data, csv_dir, docs_tree, clock, runs, last, cli, arbiter,
          sorting, running>>

(* ---------------------------- bounds ----------------------------------- *)

\* number of process_invoice runs in one behaviour
MaxRuns == 3

\* number of records in a persisted store file that is loaded
MaxStoredDocs == 2

\* how many records a list handed to merge_sort holds at most
MaxSortLen == 4

\* how many invoices are processed while other handlers may be dispatched
MaxEventRuns == 2

(* ---------------------------- text -------------------------------------- *)

\* code points of the characters used by the model
Ord(c) ==
  CASE c = "7" -> 55
    [] c = "A" -> 65
    [] c = "B" -> 66
    [] c = "C" -> 67
    [] c = "a" -> 97
    [] c = "b" -> 98
    [] c = "c" -> 99
    [] c = "d" -> 100
    [] c = "x" -> 120
    [] c = "y" -> 121
    [] c = "z" -> 122

\* a lower() that leaves every character as it is
KeepChar(c) == c

\* str.lower() on one character
LowerChar(c) ==
  CASE c = "A" -> "a"
    [] c = "B" -> "b"
    [] c = "C" -> "c"
    [] OTHER -> c

\* str.lower()
lower(s) == [i \in 1..Len(s) |-> LowerChar(s[i])]

\* Python's  s <= t  on str: lexicographic by code point
RECURSIVE StrLeq(_, _)
StrLeq(s, t) ==
  IF s = <<>> THEN TRUE
  ELSE IF t = <<>> THEN FALSE
  ELSE IF Ord(Head(s)) < Ord(Head(t)) THEN TRUE
  ELSE IF Ord(Head(s)) > Ord(Head(t)) THEN FALSE
  ELSE StrLeq(Tail(s), Tail(t))

\* Python's  sub in s  on str
StrIn(sub, s) ==
  \E i \in 0..(Len(s) - Len(sub)) :
    \A k \in 1..Len(sub) : s[i + k] = sub[k]

(* ---------------------------- merge sort -------------------------------- *)

\* merge comparing the names as they are, without lower()
RECURSIVE merge_case_sensitive(_, _)
merge_case_sensitive(left, right) ==
  IF left = <<>> THEN right
  ELSE IF right = <<>> THEN left
  ELSE IF StrLeq(Head(left).name, Head(right).name)
       THEN <<Head(left)>> \o merge_case_sensitive(Tail(left), right)
       ELSE <<Head(right)>> \o merge_case_sensitive(left, Tail(right))

\* merge taking the right record when the two names compare equal
RECURSIVE merge_right_on_ties(_, _)
merge_right_on_ties(left, right) ==
  IF left = <<>> THEN right
  ELSE IF right = <<>> THEN left
  ELSE IF lower(Head(left).name) # lower(Head(right).name)
          /\ StrLeq(lower(Head(left).name), lower(Head(right).name))
       THEN <<Head(left)>> \o merge_right_on_ties(Tail(left), right)
       ELSE <<Head(right)>> \o merge_right_on_ties(left, Tail(right))

\* merge(left, right, key) with key = record name
RECURSIVE merge(_, _)
merge(left, right) ==
  IF left = <<>> THEN right
  ELSE IF right = <<>> THEN left
  ELSE IF StrLeq(lower(Head(left).name), lower(Head(right).name))
       THEN <<Head(left)>> \o merge(Tail(left), right)
       ELSE <<Head(right)>> \o merge(left, Tail(right))

\* merge_sort(arr, key=lambda x: x["name"])
RECURSIVE merge_sort(_)
merge_sort(arr) ==
  IF Len(arr) <= 1 THEN arr
  ELSE LET mid == Len(arr) \div 2
       IN merge(merge_sort(SubSeq(arr, 1, mid)),
                merge_sort(SubSeq(arr, mid + 1, Len(arr))))

(* ---------------------------- linear search ----------------------------- *)

\* linear_search_all(arr, target, key=lambda x: x["name"]): the indices
RECURSIVE linear_search_from(_, _, _)
linear_search_from(arr, target_lower, i) ==
  IF i > Len(arr) THEN <<>>
  ELSE (IF StrIn(target_lower, lower(arr[i].name)) THEN <<i>> ELSE <<>>)
       \o linear_search_from(arr, target_lower, i + 1)

\* linear_search_all comparing with the target as typed, without lower()
linear_search_all_as_typed(arr, target) == linear_search_from(arr, target, 1)

linear_search_all(arr, target) == linear_search_from(arr, lower(target), 1)

\* DataManager.search_documents(query)
search_documents(documents, query) ==
  IF query = <<>> THEN documents
  ELSE LET indices == linear_search_all(documents, query)
       IN [k \in 1..Len(indices) |-> documents[indices[k]]]

(* ---------------------------- floats ------------------------------------ *)

\* a float holding v tenths
Num(v) == [nan |-> FALSE, v |-> v]

\* float('nan')
NaNFloat == [nan |-> TRUE, v |-> 0]

\* x + y on floats
FAdd(x, y) == IF x.nan \/ y.nan THEN NaNFloat ELSE Num(x.v + y.v)

\* x <= 0 on floats (every comparison with nan is false)
FLeqZero(x) == ~x.nan /\ x.v <= 0

Digits == {"0", "1", "2", "3", "5", "7"}

DigitVal(c) ==
  CASE c = "0" -> 0
    [] c = "1" -> 1
    [] c = "2" -> 2
    [] c = "3" -> 3
    [] c = "5" -> 5
    [] c = "7" -> 7

RECURSIVE DigitsVal(_)
DigitsVal(s) ==
  IF s = <<>> THEN 0 ELSE 10 * DigitsVal(SubSeq(s, 1, Len(s) - 1)) + DigitVal(s[Len(s)])

\* float(text): [ok |-> FALSE] stands for ValueError.  Decimal literals with
\* at most one fractional digit (the model's quantities) are covered.
ParseFloat(s) ==
  LET neg  == s # <<>> /\ Head(s) = "-"
      body == IF neg THEN Tail(s) ELSE s
      dots == {i \in 1..Len(body) : body[i] = "."}
      d    == IF dots = {} THEN Len(body) + 1 ELSE CHOOSE i \in dots : TRUE
      ip   == SubSeq(body, 1, d - 1)
      fp   == SubSeq(body, d + 1, Len(body))
      ok   == /\ Cardinality(dots) <= 1
              /\ \A i \in 1..Len(ip) : ip[i] \in Digits
              /\ \A i \in 1..Len(fp) : fp[i] \in Digits
              /\ Len(ip) + Len(fp) > 0
              /\ Len(fp) <= 1
      mag  == 10 * DigitsVal(ip) + DigitsVal(fp)
  IN IF ok THEN [ok |-> TRUE, val |-> Num(IF neg THEN 0 - mag ELSE mag)]
     ELSE [ok |-> FALSE, val |-> NaNFloat]

(* ---------------------------- lexical matching -------------------------- *)

\* Python's None, kept distinct from every text
None == <<"<None>">>

\* min_score=0.18, in units of 1/10000
min_score == 1800

\* matching blocks of a and b: <<i, j, k>> with a[i..i+k-1] = b[j..j+k-1]
MatchingBlocks(a, b) ==
  {t \in (1..Len(a)) \X (1..Len(b)) \X (1..Len(a)) :
     /\ t[1] + t[3] - 1 <= Len(a)
     /\ t[2] + t[3] - 1 <= Len(b)
     /\ \A m \in 0..(t[3] - 1) : a[t[1] + m] = b[t[2] + m]}

\* SequenceMatcher.find_longest_match: longest block, earliest in a, then in b
find_longest_match(a, b) ==
  LET bl == MatchingBlocks(a, b)
  IN IF bl = {} THEN <<1, 1, 0>>
     ELSE CHOOSE t \in bl : \A u \in bl :
            \/ t[3] > u[3]
            \/ t[3] = u[3] /\ t[1] < u[1]
            \/ t[3] = u[3] /\ t[1] = u[1] /\ t[2] <= u[2]

\* total size of SequenceMatcher.get_matching_blocks
RECURSIVE matched_total(_, _)
matched_total(a, b) ==
  IF a = <<>> \/ b = <<>> THEN 0
  ELSE LET t == find_longest_match(a, b)
       IN IF t[3] = 0 THEN 0
          ELSE t[3]
               + matched_total(SubSeq(a, 1, t[1] - 1), SubSeq(b, 1, t[2] - 1))
               + matched_total(SubSeq(a, t[1] + t[3], Len(a)),
                               SubSeq(b, t[2] + t[3], Len(b)))

\* SequenceMatcher(None, a, b).ratio() = 2*M/T as the pair <<2*M, T>>
ratio(a, b) ==
  IF Len(a) + Len(b) = 0 THEN <<1, 1>>
  ELSE <<2 * matched_total(a, b), Len(a) + Len(b)>>

\* score >= min_score on the unrounded ratio
ScoreAtLeast(r, threshold) == r[1] * 10000 >= threshold * r[2]

\* round(score, 4), in units of 1/10000
Round4(r) == (2 * r[1] * 10000 + r[2]) \div (2 * r[2])

\* a loop that keeps every catalog entry, whatever its score
RECURSIVE candidates_from_unfiltered(_, _, _)
candidates_from_unfiltered(input_desc, rows, i) ==
  IF i > Len(rows) THEN <<>>
  ELSE <<[matched_code |-> rows[i].code,
          matched_description |-> rows[i].desc,
          score |-> Round4(ratio(input_desc, lower(rows[i].desc)))]>>
       \o candidates_from_unfiltered(input_desc, rows, i + 1)

\* the inner loop of fuzzy_match_descriptions: candidates in catalog order
RECURSIVE candidates_from(_, _, _)
candidates_from(input_desc, rows, i) ==
  IF i > Len(rows) THEN <<>>
  ELSE LET score == ratio(input_desc, lower(rows[i].desc))
       IN (IF ScoreAtLeast(score, min_score)
           THEN <<[matched_code |-> rows[i].code,
                   matched_description |-> rows[i].desc,
                   score |-> Round4(score)]>>
           ELSE <<>>)
          \o candidates_from(input_desc, rows, i + 1)

\* a sort by score that puts the later of two equal candidates first
RECURSIVE sort_by_score_desc_unstable(_)
sort_by_score_desc_unstable(ms) ==
  IF Len(ms) <= 1 THEN ms
  ELSE LET rest == sort_by_score_desc_unstable(Tail(ms))
           ahead == {k \in 0..Len(rest) :
                       \A m \in 1..k : rest[m].score >= Head(ms).score}
           pos == CHOOSE k \in ahead : \A k2 \in ahead : k2 <= k
       IN SubSeq(rest, 1, pos) \o <<Head(ms)>> \o SubSeq(rest, pos + 1, Len(rest))

\* list.sort(key=score, reverse=True): stable, non-increasing in score
RECURSIVE sort_by_score_desc(_)
sort_by_score_desc(ms) ==
  IF Len(ms) <= 1 THEN ms
  ELSE LET rest == sort_by_score_desc(Tail(ms))
           ahead == {k \in 0..Len(rest) :
                       \A m \in 1..k : rest[m].score > Head(ms).score}
           pos == CHOOSE k \in ahead : \A k2 \in ahead : k2 <= k
       IN SubSeq(rest, 1, pos) \o <<Head(ms)>> \o SubSeq(rest, pos + 1, Len(rest))

\* one iteration of fuzzy_match_descriptions
fuzzy_match_line(line, rows) ==
  LET matches == sort_by_score_desc(candidates_from(lower(line.description), rows, 1))
  IN IF matches # <<>>
     THEN [line_id |-> line.line_id, description |-> line.description,
           quantity |-> line.quantity,
           matched_code |-> matches[1].matched_code,
           matched_description |-> matches[1].matched_description,
           score |-> matches[1].score, status |-> "matched"]
     ELSE [line_id |-> line.line_id, description |-> line.description,
           quantity |-> line.quantity,
           matched_code |-> None, matched_description |-> None,
           score |-> 0, status |-> "no_match"]

\* fuzzy_match_descriptions(lines, df_codes); raised stands for ValueError
fuzzy_match_descriptions(lines, df_codes) ==
  IF df_codes.columns < 2 THEN [raised |-> TRUE, lines |-> <<>>]
  ELSE [raised |-> FALSE,
        lines |-> [i \in 1..Len(lines) |-> fuzzy_match_line(lines[i], df_codes.rows)]]

(* ---------------------------- inputs ------------------------------------ *)

\* an XML element that is missing from the invoice line
Absent == <<"<absent>">>

\* the reference spreadsheet: first column code, second column description
Catalog ==
  [columns |-> 2,
   rows |-> << [code |-> <<"C", "1">>, desc |-> <<"a", "b">>],
               [code |-> <<"C", "2">>, desc |-> <<"C", "d">>] >>]

\* a spreadsheet with the code column only
OneColumnCatalog == [columns |-> 1, rows |-> <<>>]

Catalogs == {Catalog, OneColumnCatalog}

\* the invoice files offered to the application: stem of the file name, whether
\* the XML is well formed, and the description and quantity of each line
Invoices ==
  { [stem |-> <<"a">>, wellformed |-> TRUE,
     items |-> << [description |-> <<"A", "b">>, quantity |-> <<"1", "2", ".", "5">>] >>],
    [stem |-> <<"B">>, wellformed |-> TRUE,
     items |-> << [description |-> <<"a", "b">>, quantity |-> <<"2">>],
                  [description |-> <<"x", "y">>, quantity |-> <<"3">>],
                  [description |-> <<"c", "d">>, quantity |-> <<"x">>] >>],
    [stem |-> <<"a">>, wellformed |-> TRUE,
     items |-> << [description |-> <<"c", "d">>, quantity |-> Absent],
                  [description |-> <<"a", "b">>, quantity |-> <<>>] >>],
    [stem |-> <<"7">>, wellformed |-> TRUE,
     items |-> << [description |-> <<"c", "d", "x">>, quantity |-> <<"-", "2">>] >>],
    [stem |-> <<"z">>, wellformed |-> FALSE, items |-> <<>>] }

\* the texts typed into the search box
Queries == {<<>>, <<"A">>}

\* how far the wall clock (seconds) moves between two runs
ClockSteps == {0, 1}

\* strftime("%Y-%m-%d %H:%M") keeps the minute of the time stamp
SecondsPerMinute == 60

\* strftime("%Y%m%d_%H%M%S"): the text of the second
RECURSIVE strftime(_)
strftime(t) ==
  LET digit(n) == CASE n = 0 -> "0" [] n = 1 -> "1" [] n = 2 -> "2" [] n = 3 -> "3"
                    [] n = 4 -> "4" [] n = 5 -> "5" [] n = 6 -> "6" [] n = 7 -> "7"
                    [] n = 8 -> "8" [] n = 9 -> "9"
  IN IF t < 10 THEN <<digit(t)>> ELSE strftime(t \div 10) \o <<digit(t % 10)>>

(* ---------------------------- store and artifacts ----------------------- *)

\* {"documents": [], "inventory": {}}
EmptyLedger == [d \in {} |-> Num(0)]

FreshStore == [documents |-> <<>>, inventory |-> EmptyLedger]

\* the attribute self.data before load_data has returned
NoData == [documents |-> <<>>, inventory |-> EmptyLedger, unset |-> TRUE]

\* inventory[desc] = qty whether or not the key is present
ledger_overwrite(inventory, desc, qty) ==
  [d \in DOMAIN inventory \cup {desc} |-> IF d = desc THEN qty ELSE inventory[d]]

\* inventory[desc] += qty, or inventory[desc] = qty when the key is absent
ledger_add(inventory, desc, qty) ==
  [d \in DOMAIN inventory \cup {desc} |->
     IF d = desc
     THEN (IF desc \in DOMAIN inventory THEN FAdd(inventory[desc], qty) ELSE qty)
     ELSE inventory[d]]

\* truth value of an optional text: None and "" are false
Truthy(text) == text # None /\ text # <<>>

\* extract_lines_from_xml; raised stands for ET.ParseError
extract_lines_from_xml(xml) ==
  IF ~xml.wellformed THEN [raised |-> TRUE, lines |-> <<>>]
  ELSE [raised |-> FALSE,
        lines |-> [i \in 1..Len(xml.items) |->
                     [line_id |-> i,
                      description |-> xml.items[i].description,
                      quantity |-> IF xml.items[i].quantity = Absent
                                   THEN <<"0">> ELSE xml.items[i].quantity]]]

\* DataFrame.to_csv: None is written as an empty field
to_csv(standardized) ==
  [i \in 1..Len(standardized) |->
     [standardized[i] EXCEPT
        !.matched_code = IF @ = None THEN <<>> ELSE @,
        !.matched_description = IF @ = None THEN <<>> ELSE @]]

\* the value pandas gives an empty field
NaN == <<"<NaN>">>

\* pd.read_csv: an empty field is read as NaN
read_csv(rows) ==
  [i \in 1..Len(rows) |->
     [rows[i] EXCEPT
        !.matched_description = IF @ = <<>> THEN NaN ELSE @,
        !.quantity = IF @ = <<>> THEN NaN ELSE @]]

\* str(value) of a cell
str(cell) == IF cell = NaN THEN <<"n", "a", "n">> ELSE cell

\* float(value) of a cell
float(cell) == IF cell = NaN THEN [ok |-> TRUE, val |-> NaNFloat] ELSE ParseFloat(cell)

\* the "Update inventory" loop of DataManager.process_invoice
RECURSIVE update_inventory(_, _)
update_inventory(inventory, standardized) ==
  IF standardized = <<>> THEN inventory
  ELSE LET item == Head(standardized)
           qty == ParseFloat(item.quantity)
       IN update_inventory(
            IF Truthy(item.matched_description) /\ item.quantity # <<>> /\ qty.ok
            THEN ledger_add(inventory, item.matched_description, qty.val)
            ELSE inventory,
            Tail(standardized))

\* the row loop of recalculate_inventory over one CSV file
RECURSIVE recalculate_rows(_, _)
recalculate_rows(inventory, rows) ==
  IF rows = <<>> THEN inventory
  ELSE LET desc == str(Head(rows).matched_description)
           qty == float(Head(rows).quantity)
       IN recalculate_rows(
            IF desc # <<>> /\ desc # <<"n", "a", "n">> /\ qty.ok
            THEN ledger_add(inventory, desc, qty.val)
            ELSE inventory,
            Tail(rows))

\* a recompute that starts from the ledger it finds
kept_inventory(inventory) == inventory

\* self.data_manager.data["inventory"] = {}
cleared_inventory(inventory) == EmptyLedger

\* the file loop of recalculate_inventory over csv_dir.glob("*.csv")
RECURSIVE recalculate_files(_, _, _)
recalculate_files(inventory, dir, names) ==
  IF names = {} THEN inventory
  ELSE LET f == CHOOSE n \in names : TRUE
       IN recalculate_files(recalculate_rows(inventory, read_csv(dir[f])),
                            dir, names \ {f})

\* json.dump of the store by save_data
json_dump(store) ==
  [kind |-> "json",
   value |-> [t |-> "obj",
              v |-> [documents |->
                       [t |-> "list",
                        v |-> [i \in 1..Len(store.documents) |->
                                 [t |-> "obj", v |-> store.documents[i]]]],
                     inventory |-> store.inventory]]]

\* ttk's conversion of a displayed value: int(str(value)) when that succeeds
IsIntLiteral(text) == text # <<>> /\ \A i \in 1..Len(text) : text[i] \in Digits

tree_value(text) == IF IsIntLiteral(text) THEN <<"<int>">> \o text ELSE text

\* next((d for d in documents if d.get("name") == doc_name), None)
first_named(documents, doc_name) ==
  LET hits == {i \in 1..Len(documents) : documents[i].name = doc_name}
  IN IF hits = {} THEN 0 ELSE CHOOSE i \in hits : \A j \in hits : i <= j

(* ---------------------------- the application --------------------------- *)

\* cli_standardize.main has not been started
NotStarted == [pc |-> "idle"]

\* GeminiMatcher.analyze_candidates has not been called directly
NoCall == [op |-> "none"]

\* no list handed to merge_sort
NotSorting == [op |-> "none"]

\* no call of DataManager.process_invoice is in progress
NotRunning == [at |-> "none"]

\* ModernApp.__init__ with no store file on disk
Init ==
  /\ pc = "ready"
  /\ file = [kind |-> "missing"]
  /\ data = FreshStore
  /\ csv_dir = [f \in {} |-> <<>>]
  /\ docs_tree = <<>>
  /\ clock = 0
  /\ runs = 0
  /\ last = [op |-> "init"]
  /\ cli = NotStarted
  /\ arbiter = NoCall
  /\ sorting = NotSorting
  /\ running = NotRunning

\* extraction and matching of every offered invoice against every catalog
Pipeline ==
  [xml \in Invoices, df_codes \in Catalogs |->
     LET extracted == extract_lines_from_xml(xml)
         matched == fuzzy_match_descriptions(extracted.lines, df_codes)
     IN [raised |-> extracted.raised \/ matched.raised,
         lines |-> extracted.lines,
         standardized |-> matched.lines]]

\* ModernApp.process_invoice calling DataManager.process_invoice
ProcessInvoice(xml, df_codes, dt) ==
  /\ pc = "ready"
  /\ UNCHANGED <<cli, arbiter, sorting, running>>
  /\ runs < MaxRuns
  /\ runs' = runs + 1
  /\ clock' = clock + dt
  /\ LET now == clock + dt
         run == Pipeline[xml, df_codes]
         standardized == run.standardized
         csv_filename == strftime(now) \o <<"_">> \o xml.stem \o <<"_standardized.csv">>
         doc == [name |-> xml.stem,
                 csv_filename |-> csv_filename,
                 date |-> now \div SecondsPerMinute,
                 lines_count |-> Len(run.lines),
                 matched_count |->
                   Cardinality({i \in 1..Len(standardized) :
                                  standardized[i].status = "matched"})]
     IN IF run.raised
        THEN /\ last' = [op |-> "process_failed", xml |-> xml]
             /\ UNCHANGED <<pc, file, data, csv_dir, docs_tree>>
        ELSE /\ csv_dir' = [f \in DOMAIN csv_dir \cup {csv_filename} |->
                              IF f = csv_filename THEN to_csv(standardized)
                              ELSE csv_dir[f]]
             /\ data' = [documents |-> merge_sort(Append(data.documents, doc)),
                         inventory |-> update_inventory(data.inventory, standardized)]
             /\ file' = json_dump(data')
             /\ docs_tree' = data'.documents
             /\ last' = [op |-> "process", doc |-> doc, standardized |-> standardized]
             /\ pc' = pc

\* DataManager.delete_document(doc)
delete_document(store, doc) ==
  [store EXCEPT !.documents = SelectSeq(@, LAMBDA d : d # doc)]

\* ModernApp.delete_document, the definition bound on the class (the second)
DeleteDocument(row) ==
  /\ pc = "ready"
  /\ UNCHANGED <<cli, arbiter, sorting, running>>
  /\ row \in 1..Len(docs_tree)
  /\ LET doc_name == tree_value(docs_tree[row].name)
         found == first_named(data.documents, doc_name)
     IN IF found = 0
        THEN /\ last' = [op |-> "delete", selected |-> docs_tree[row], found |-> FALSE,
                         inventory |-> data.inventory, rows |-> <<>>,
                         deleted |-> <<>>]
             /\ UNCHANGED <<pc, file, data, csv_dir, docs_tree, clock, runs>>
        ELSE LET doc == data.documents[found]
             IN /\ csv_dir' = [f \in DOMAIN csv_dir \ {doc.csv_filename} |-> csv_dir[f]]
                /\ data' = delete_document(data, doc)
                /\ file' = json_dump(data')
                /\ docs_tree' = data'.documents
                /\ last' = [op |-> "delete", selected |-> docs_tree[row], found |-> TRUE,
                            inventory |-> data.inventory,
                            deleted |-> SelectSeq(data.documents, LAMBDA d : d = doc),
                            rows |-> IF docs_tree[row].csv_filename \in DOMAIN csv_dir
                                     THEN csv_dir[docs_tree[row].csv_filename]
                                     ELSE <<>>]
                /\ UNCHANGED <<pc, clock, runs>>

\* ModernApp.recalculate_inventory
RecalculateInventory ==
  /\ pc = "ready"
  /\ UNCHANGED <<cli, arbiter, sorting, running>>
  /\ data' = [data EXCEPT
                !.inventory = recalculate_files(cleared_inventory(@), csv_dir,
                                                DOMAIN csv_dir)]
  /\ file' = json_dump(data')
  /\ last' = [op |-> "recalculate", again |-> last.op = "recalculate"]
  /\ UNCHANGED <<pc, csv_dir, docs_tree, clock, runs>>

\* ModernApp.search_documents
SearchDocuments(query) ==
  /\ pc = "ready"
  /\ UNCHANGED <<cli, arbiter, sorting, running>>
  /\ docs_tree' = search_documents(data.documents, query)
  /\ last' = [op |-> "search", query |-> query]
  /\ UNCHANGED <<pc, file, data, csv_dir, clock, runs>>

Next ==
  \/ \E xml \in Invoices, df_codes \in Catalogs, dt \in ClockSteps :
       ProcessInvoice(xml, df_codes, dt)
  \/ \E row \in 1..MaxRuns : DeleteDocument(row)
  \/ RecalculateInventory
  \/ \E query \in Queries : SearchDocuments(query)

Spec == Init /\ [][Next]_vars

(* ---------------------------- loading the store ------------------------- *)

\* JSON values are tagged with their type: "obj" (v is a function from the keys
\* present), "list" and "str" (v is a sequence), "num"
JObj(f) == [t |-> "obj", v |-> f]

StoredName == <<"a">>

StoredFile == <<"0", "_", "a", "_standardized.csv">>

\* the record shapes found in a persisted store
StoredDocs ==
  { JObj([name |-> StoredName, csv_filename |-> StoredFile, date |-> 0,
          lines_count |-> 2, matched_count |-> 1]),
    JObj([name |-> StoredName, filename |-> StoredFile, date |-> 0]),
    JObj([name |-> StoredName, csv_filename |-> StoredFile, lines_count |-> 3]),
    JObj([csv_filename |-> StoredFile, lines_count |-> 2, matched_count |-> 1]),
    JObj([k \in {} |-> 0]),
    [t |-> "str", v |-> <<"x">>],
    [t |-> "num", v |-> 5] }

RECURSIVE SeqsUpTo(_, _)
SeqsUpTo(S, n) ==
  IF n = 0 THEN {<<>>}
  ELSE LET shorter == SeqsUpTo(S, n - 1)
       IN shorter \cup {Append(q, x) : q \in shorter, x \in S}

\* the values found under "documents"
StoredDocuments ==
  {[t |-> "list", v |-> q] : q \in SeqsUpTo(StoredDocs, MaxStoredDocs)}
    \cup {[t |-> "num", v |-> 5], [t |-> "str", v |-> <<>>], [t |-> "str", v |-> <<"x">>]}

\* the values found under "inventory"
StoredInventories == {EmptyLedger, [d \in {<<"a", "b">>} |-> Num(125)]}

\* the decodable contents of the store file
StoredValues ==
  {JObj([documents |-> ds, inventory |-> inv]) :
     ds \in StoredDocuments, inv \in StoredInventories}
    \cup {JObj([documents |-> ds]) : ds \in StoredDocuments}
    \cup {JObj([inventory |-> inv]) : inv \in StoredInventories}
    \cup {JObj([k \in {} |-> 0]), [t |-> "num", v |-> 5], [t |-> "list", v |-> <<>>]}

\* what can be on disk at data_file when the application starts
StoreFiles ==
  {[kind |-> "missing"]}
    \cup {[kind |-> "text", text |-> x] : x \in {<<>>, <<" ", "\n">>, <<"{", "x">>}}
    \cup {[kind |-> "json", value |-> v] : v \in StoredValues}

\* str.strip()
RECURSIVE strip(_)
strip(text) ==
  LET ws == {" ", "\n", "\t"}
  IN IF text = <<>> THEN text
     ELSE IF Head(text) \in ws THEN strip(Tail(text))
     ELSE IF text[Len(text)] \in ws THEN strip(SubSeq(text, 1, Len(text) - 1))
     ELSE text

\* the classes an exception is an instance of
Bases(exc) ==
  CASE exc = "JSONDecodeError" -> {"JSONDecodeError", "ValueError", "Exception"}
    [] exc = "TypeError" -> {"TypeError", "Exception"}
    [] exc = "AttributeError" -> {"AttributeError", "Exception"}
    [] exc = "ValueError" -> {"ValueError", "Exception"}
    [] exc = "UnicodeEncodeError" -> {"UnicodeEncodeError", "ValueError", "Exception"}
    [] OTHER -> {}

\* except (json.JSONDecodeError, ValueError)
load_data_except_decode_only == {"JSONDecodeError", "ValueError"}

\* except (json.JSONDecodeError, ValueError, Exception)
load_data_except == {"JSONDecodeError", "ValueError", "Exception"}

Ok(v) == [exc |-> "none", val |-> v]

Raise(e) == [exc |-> e, val |-> 0]

\* f.read().strip() followed by json.loads(content), for a non-blank content
json_loads(f) ==
  IF f.kind = "json" THEN Ok(f.value) ELSE Raise("JSONDecodeError")

\* doc.get(key, default)
get(doc, key, default) == IF key \in DOMAIN doc THEN doc[key] ELSE default

\* a loop body that converts every record, also one of the new format
migrate_doc_always(doc, now) ==
  IF doc.t = "num" THEN Raise("TypeError")
  ELSE IF doc.t # "obj" THEN Raise("AttributeError")
  ELSE [exc |-> "none",
        val |-> [name |-> get(doc.v, "name", <<"U", "n", "k", "n", "o", "w", "n">>),
                 csv_filename |-> get(doc.v, "filename",
                                      get(doc.v, "csv_filename", <<"N", "/", "A">>)),
                 date |-> get(doc.v, "date", now \div SecondsPerMinute),
                 lines_count |-> get(doc.v, "lines_count", 0),
                 matched_count |-> get(doc.v, "matched_count", 0)],
        migrated |-> TRUE]

\* the body of the loop of _migrate_old_data for one stored record
migrate_doc(doc, now) ==
  IF doc.t = "num" THEN Raise("TypeError")
  ELSE IF doc.t # "obj" THEN Raise("AttributeError")
  ELSE IF {"lines_count", "matched_count", "csv_filename"} \subseteq DOMAIN doc.v
       THEN [exc |-> "none", val |-> doc.v, migrated |-> FALSE]
       ELSE [exc |-> "none",
             val |-> [name |-> get(doc.v, "name", <<"U", "n", "k", "n", "o", "w", "n">>),
                      csv_filename |-> get(doc.v, "filename",
                                           get(doc.v, "csv_filename", <<"N", "/", "A">>)),
                      date |-> get(doc.v, "date", now \div SecondsPerMinute),
                      lines_count |-> 0,
                      matched_count |-> 0],
             migrated |-> TRUE]

\* _migrate_old_data(data): the migrated store and whether save_data ran
migrate_old_data(value, now) ==
  IF value.t # "obj" THEN Raise("TypeError")
  ELSE LET docs == IF "documents" \in DOMAIN value.v
                   THEN value.v["documents"] ELSE [t |-> "list", v |-> <<>>]
           inventory == IF "inventory" \in DOMAIN value.v
                        THEN value.v["inventory"] ELSE EmptyLedger
           items == IF docs.t = "str"
                    THEN [i \in 1..Len(docs.v) |-> [t |-> "str", v |-> <<docs.v[i]>>]]
                    ELSE docs.v
           out == [i \in 1..Len(items) |-> migrate_doc(items[i], now)]
       IN IF docs.t \notin {"list", "str"} THEN Raise("TypeError")
          ELSE IF \E i \in 1..Len(out) : out[i].exc # "none"
          THEN Raise(out[CHOOSE i \in 1..Len(out) :
                           /\ out[i].exc # "none"
                           /\ \A j \in 1..(i - 1) : out[j].exc = "none"].exc)
          ELSE [exc |-> "none",
                val |-> [documents |-> [i \in 1..Len(out) |-> out[i].val],
                         inventory |-> inventory],
                saved |-> \E i \in 1..Len(out) : out[i].migrated]

\* load_data(): the returned store, the file left on disk, an escaping
\* exception, and whether save_data wrote the file
load_data(f, now) ==
  IF f.kind = "missing"
  THEN [data |-> FreshStore, file |-> f, raised |-> "none", saved |-> FALSE]
  ELSE IF f.kind = "text" /\ strip(f.text) = <<>>
  THEN [data |-> FreshStore, file |-> f, raised |-> "none", saved |-> FALSE]
  ELSE LET parsed == json_loads(f)
           migrated == IF parsed.exc = "none"
                       THEN migrate_old_data(parsed.val, now) ELSE parsed
       IN IF migrated.exc = "none"
          THEN [data |-> migrated.val,
                file |-> IF migrated.saved THEN json_dump(migrated.val) ELSE f,
                raised |-> "none", saved |-> migrated.saved]
          ELSE IF Bases(migrated.exc) \cap load_data_except # {}
          THEN [data |-> FreshStore, file |-> [kind |-> "missing"], raised |-> "none",
                saved |-> FALSE]
          ELSE [data |-> NoData, file |-> f, raised |-> migrated.exc, saved |-> FALSE]

\* DataManager.__init__: self.data = self.load_data()
LoadData ==
  /\ pc = "boot"
  /\ UNCHANGED <<cli, arbiter, sorting, running>>
  /\ LET r == load_data(file, clock)
     IN /\ data' = r.data
        /\ file' = r.file
        /\ pc' = IF r.raised = "none" THEN "ready" ELSE "crashed"
        /\ docs_tree' = IF r.raised = "none" THEN r.data.documents ELSE <<>>
        /\ last' = [op |-> "load", source |-> file, raised |-> r.raised,
                    saved |-> r.saved,
                    previous |-> IF last.op = "restart" THEN last.data ELSE NoData]
  /\ UNCHANGED <<csv_dir, clock, runs>>

\* the application is closed and started again later
Restart ==
  /\ pc = "ready"
  /\ UNCHANGED <<cli, arbiter, sorting, running>>
  /\ last.op = "load"
  /\ pc' = "boot"
  /\ data' = NoData
  /\ docs_tree' = <<>>
  /\ \E dt \in ClockSteps : clock' = clock + dt
  /\ clock < SecondsPerMinute
  /\ last' = [op |-> "restart", source |-> last.source, data |-> data]
  /\ UNCHANGED <<file, csv_dir, runs>>

\* the application starts on whatever the data directory holds
InitLoad ==
  /\ pc = "boot"
  /\ file \in StoreFiles
  /\ data = NoData
  /\ csv_dir = [f \in {} |-> <<>>]
  /\ docs_tree = <<>>
  /\ clock = 0
  /\ runs = 0
  /\ last = [op |-> "init"]
  /\ cli = NotStarted
  /\ arbiter = NoCall
  /\ sorting = NotSorting
  /\ running = NotRunning

NextLoad == LoadData \/ Restart

SpecLoad == InitLoad /\ [][NextLoad]_vars

(* ---------------------------- the AI arbiter ---------------------------- *)

\* analyze_candidates(..., min_candidates=5)
min_candidates == 5

\* max(a, b)
max(a, b) == IF a >= b THEN a ELSE b

\* s[:n]
slice(s, n) == SubSeq(s, 1, IF n < Len(s) THEN n ELSE Len(s))

\* dict.update(other), and assignment of keys
update(d, other) ==
  [k \in DOMAIN d \cup DOMAIN other |-> IF k \in DOMAIN other THEN other[k] ELSE d[k]]

\* The text of a backend response is a sequence of lines.  A line is one of
\*   "<fence>json" "<fence>"  a line of three backquotes, the markdown fence
\*   ""               a blank line
\*   "{body}"         an object on one line   "[list]" a JSON list on one line
\*   "{" "body" "}"   an object over several lines
\*   "body}"          a member line that ends with the brace of a nested value
\*   "prose"          text that is no JSON
startswith_fence(line) == line \in {"<fence>json", "<fence>"}

startswith_brace(line) == line \in {"{", "{body}"}

endswith_brace(line) == line \in {"}", "{body}", "body}"}

\* response_text.strip(), on lines
RECURSIVE strip_lines(_)
strip_lines(lines) ==
  IF lines = <<>> THEN lines
  ELSE IF Head(lines) = "" THEN strip_lines(Tail(lines))
  ELSE IF lines[Len(lines)] = "" THEN strip_lines(SubSeq(lines, 1, Len(lines) - 1))
  ELSE lines

\* the loop that collects json_lines from a fenced response
RECURSIVE json_lines(_, _)
json_lines(lines, in_json) ==
  IF lines = <<>> THEN <<>>
  ELSE LET line == Head(lines)
           inside == in_json \/ startswith_brace(line)
       IN (IF inside THEN <<line>> ELSE <<>>)
          \o (IF endswith_brace(line) THEN <<>> ELSE json_lines(Tail(lines), inside))

\* json.loads(response_text): value is what the JSON text of the response says
json_loads_lines(lines, value) ==
  IF lines \in {<<"{body}">>, <<"{", "body", "}">>, <<"{", "body}", "}">>}
  THEN Ok(value)
  ELSE IF lines = <<"[list]">> THEN Ok([t |-> "list"])
  ELSE Raise("JSONDecodeError")

\* a fallback whose confidence is the default 0.5
create_fallback_result_default_confidence(best_candidate, error_msg) ==
  [matched_code |-> best_candidate.matched_code,
   matched_description |-> best_candidate.matched_description,
   confidence |-> 5000,
   reasoning |-> <<"Analiza Gemini a esuat: ">> \o error_msg
                   \o <<". Folosesc cel mai bun rezultat fuzzy.">>,
   status |-> "gemini_fallback"]

\* _create_fallback_result(best_candidate, error_msg)
create_fallback_result(best_candidate, error_msg) ==
  [matched_code |-> best_candidate.matched_code,
   matched_description |-> best_candidate.matched_description,
   confidence |-> best_candidate.score,
   reasoning |-> <<"Analiza Gemini a esuat: ">> \o error_msg
                   \o <<". Folosesc cel mai bun rezultat fuzzy.">>,
   status |-> "gemini_fallback"]

\* a no-match result that carries the status of an answered request
create_no_match_result_answered ==
  [matched_code |-> None, matched_description |-> None, confidence |-> 5000,
   reasoning |-> <<"Niciun candidat disponibil din matching-ul fuzzy">>,
   status |-> "gemini_no_match"]

\* _create_no_match_result(description)
create_no_match_result ==
  [matched_code |-> None, matched_description |-> None, confidence |-> 0,
   reasoning |-> <<"Niciun candidat disponibil din matching-ul fuzzy">>,
   status |-> "no_match"]

\* next((c for c in candidates if c["matched_code"] == selected_code), None),
\* as the position of that candidate, 0 for None
selected_candidate(candidates, selected_code) ==
  LET hits == {k \in 1..Len(candidates) : candidates[k].matched_code = selected_code}
  IN IF hits = {} THEN 0 ELSE CHOOSE k \in hits : \A m \in hits : k <= m

\* float(gemini_result.get("confidence", 0.5))
float_confidence(gemini_result) ==
  LET c == get(gemini_result, "confidence", [t |-> "num", v |-> 5000])
  IN CASE c.t = "num" -> Ok(c.v)
       [] c.t = "str" -> Raise("ValueError")
       [] c.t = "null" -> Raise("TypeError")

\* the text handed to json.loads: stripped, and cut out of a markdown fence
response_json_text(response_text) ==
  LET stripped == strip_lines(response_text)
  IN IF stripped # <<>> /\ startswith_fence(Head(stripped))
     THEN json_lines(stripped, FALSE)
     ELSE stripped

\* "null", the text the prompt shows for no selection
NullText == <<"n", "u", "l", "l">>

\* a branch that takes the answered code as it is
invalid_code_accepted(candidates, selected_code) ==
  [matched_code |-> selected_code, matched_description |-> None,
   confidence |-> candidates[1].score, reasoning |-> <<"ok">>,
   status |-> "gemini_analyzed"]

\* selected_candidate is None: the answered code is none of the candidates'
invalid_code_result(candidates, selected_code) ==
  create_fallback_result(candidates[1],
                         <<"AI a ales un cod invalid (">> \o selected_code
                           \o <<") care nu era in lista">>)

\* the try block of _parse_gemini_response; value is what the JSON text says
parse_gemini_response_try(response_text, value, candidates) ==
  LET loaded == json_loads_lines(response_json_text(response_text), value)
  IN IF loaded.exc # "none" THEN loaded
     ELSE IF loaded.val.t # "obj" THEN Raise("AttributeError")
     ELSE LET gemini_result == loaded.val.v
              selected_code == get(gemini_result, "selected_code", None)
              confidence == float_confidence(gemini_result)
              reasoning == get(gemini_result, "reasoning",
                               <<"Nicio explicatie furnizata">>)
              k == selected_candidate(candidates, selected_code)
          IN IF confidence.exc # "none" THEN confidence
             ELSE IF selected_code = None \/ selected_code = NullText
             THEN Ok([matched_code |-> None, matched_description |-> None,
                      confidence |-> confidence.val, reasoning |-> reasoning,
                      status |-> "gemini_no_match"])
             ELSE IF k = 0 THEN Ok(invalid_code_result(candidates, selected_code))
             ELSE Ok([matched_code |-> candidates[k].matched_code,
                      matched_description |-> candidates[k].matched_description,
                      confidence |-> confidence.val, reasoning |-> reasoning,
                      status |-> "gemini_analyzed"])

\* except (json.JSONDecodeError, KeyError, ValueError)
parse_except == {"JSONDecodeError", "KeyError", "ValueError"}

\* _parse_gemini_response(response_text, candidates)
parse_gemini_response(response_text, value, candidates) ==
  LET r == parse_gemini_response_try(response_text, value, candidates)
  IN IF r.exc # "none" /\ Bases(r.exc) \cap parse_except # {}
     THEN Ok(create_fallback_result(candidates[1],
                                    <<"Nu s-a putut parsa raspunsul AI">>))
     ELSE r

\* candidates[:max(min_candidates, len(candidates))]
candidates_to_analyze(candidates) ==
  slice(candidates, max(min_candidates, Len(candidates)))

\* whether analyze_candidates reaches self.model.generate_content(prompt):
\* the return for an empty list comes before the prompt is built
generate_content_called(candidates) == candidates_to_analyze(candidates) # <<>>

\* GeminiMatcher.analyze_candidates; response is what generate_content gives:
\* a text, or an exception with its message
analyze_candidates(candidates, response) ==
  LET offered == candidates_to_analyze(candidates)
  IN IF offered = <<>> THEN create_no_match_result
     ELSE IF response.kind = "error"
     THEN create_fallback_result(offered[1], response.message)
     ELSE LET parsed == parse_gemini_response(response.lines, response.value, offered)
          IN IF parsed.exc = "none"
             THEN update(parsed.val, [ai_method |-> "gemini"])
             ELSE create_fallback_result(offered[1], <<parsed.exc>>)

(* ---------------------------- matching with arbitration ----------------- *)

\* gemini_threshold=0.30, in units of 1/10000
gemini_threshold == 3000

\* top_candidates = matches[:5]
top_candidates(matches) == slice(matches, 5)

\* The try block that constructs the arbiter.  module_found says whether
\* "from gemini_matcher import GeminiMatcher" finds such a module on the path
\* (the repository keeps the class in gemini_patcher.py); env_key is the
\* environment variable GEMINI_API_KEY.  The result is use_gemini afterwards.
construct_gemini(use_gemini, module_found, gemini_api_key, env_key) ==
  IF ~use_gemini THEN FALSE
  ELSE IF ~module_found THEN FALSE                              \* ImportError
  ELSE IF ~Truthy(gemini_api_key) /\ ~Truthy(env_key) THEN FALSE  \* ValueError
  ELSE TRUE

\* the annotation of a line that has no candidate
no_candidate_line(line) ==
  update(line, [matched_code |-> None, matched_description |-> None,
                score |-> 0, status |-> "fara_potriviri"])

\* the arbiter is asked whenever it is enabled
arbitrated_whenever_enabled(use_gemini, best_match) == use_gemini

\* use_gemini and gemini_matcher and best_match["score"] < gemini_threshold
arbitrated(use_gemini, best_match) ==
  use_gemini /\ best_match.score < gemini_threshold

\* the line takes what the arbiter returned
adopt_gemini_result(line, gemini_result, best_match) ==
  update(line, [matched_code |-> gemini_result.matched_code,
                matched_description |-> gemini_result.matched_description,
                score |-> gemini_result.confidence,
                status |-> gemini_result.status,
                reasoning |-> get(gemini_result, "reasoning", <<>>),
                fuzzy_score |-> best_match.score])

\* an except branch that marks the line as unmatched
error_fallback_unmatched(line, best_match) ==
  update(line, [matched_code |-> None, matched_description |-> None,
                score |-> 0, status |-> "eroare_gemini_fallback"])

\* except Exception: line.update(best_match), status eroare_gemini_fallback
error_fallback(line, best_match) ==
  update(update(line, best_match), [status |-> "eroare_gemini_fallback"])

\* the else branch: the best lexical candidate, without the arbiter
adopt_best_match(line, best_match) ==
  update(update(line, best_match),
         [status |-> IF best_match.score >= gemini_threshold
                     THEN "potrivit_fuzzy"
                     ELSE "fuzzy_confidence_scazut"])

\* one iteration of the loop of match_descriptions; response is what the
\* backend answers if the arbiter is asked, and printed says whether the
\* console can encode the description that the print after the arbitration
\* writes (print raises UnicodeEncodeError otherwise)
match_line(line, rows, use_gemini, response, printed) ==
  LET matches == sort_by_score_desc(candidates_from(lower(line.description), rows, 1))
  IN IF matches = <<>>
     THEN [line |-> no_candidate_line(line), matches |-> matches,
           called |-> FALSE, raised |-> FALSE]
     ELSE LET best_match == matches[1]
          IN IF arbitrated(use_gemini, best_match)
             THEN LET gemini_result == analyze_candidates(top_candidates(matches), response)
                      adopted == adopt_gemini_result(line, gemini_result, best_match)
                  IN [line |-> IF printed THEN adopted
                               ELSE error_fallback(adopted, best_match),
                      matches |-> matches, called |-> TRUE, raised |-> ~printed]
             ELSE [line |-> adopt_best_match(line, best_match), matches |-> matches,
                   called |-> FALSE, raised |-> FALSE]

\* a check that lets every spreadsheet pass
too_few_columns_never(df_codes) == FALSE

\* len(cols) < 2 raises ValueError
too_few_columns(df_codes) == df_codes.columns < 2

(* ---------------------------- backend responses ------------------------- *)

\* the JSON objects a response can spell; each of the three keys may be missing
GeminiValues ==
  LET keys == {"selected_code", "confidence", "reasoning"}
      full == {[selected_code |-> c, confidence |-> f, reasoning |-> <<"ok">>] :
                 c \in {None, NullText, <<"C", "1">>, <<"C", "3">>, <<"C", "6">>,
                        <<"Z", "9">>},
                 f \in {[t |-> "num", v |-> 8500], [t |-> "str"], [t |-> "null"]}}
  IN {[t |-> "obj", v |-> [k \in K |-> o[k]]] : o \in full, K \in SUBSET keys}

\* the ways a response lays a JSON object out
JsonLayouts ==
  { <<"{body}">>, <<"{", "body", "}">>, <<"", "{body}", "">>, <<"{", "body}", "}">>,
    <<"<fence>json", "{body}", "<fence>">>,
    <<"<fence>json", "{", "body", "}", "<fence>">>,
    <<"<fence>", "prose", "{body}", "<fence>">>,
    <<"<fence>json", "{", "body}", "}", "<fence>">>,
    <<"prose", "{body}">> }

\* the responses that hold no JSON object
OtherLayouts ==
  { <<>>, <<"prose">>, <<"[list]">>, <<"<fence>", "prose", "<fence>">> }

\* what self.model.generate_content(prompt) and response.text can give
Responses ==
  {[kind |-> "text", lines |-> l, value |-> v] : l \in JsonLayouts, v \in GeminiValues}
    \cup {[kind |-> "text", lines |-> l, value |-> [t |-> "list"]] : l \in OtherLayouts}
    \cup {[kind |-> "error", message |-> <<"503 unavailable">>]}

\* the responses the backend gives during a run of the command line
CliResponses ==
  {r \in Responses :
     \/ r.kind = "error"
     \/ /\ r.kind = "text"
        /\ r.lines = <<"prose">>
     \/ /\ r.kind = "text"
        /\ r.lines = <<"{body}">>
        /\ DOMAIN r.value.v = {"selected_code", "confidence", "reasoning"}
        /\ r.value.v.confidence = [t |-> "num", v |-> 8500]
        /\ r.value.v.selected_code \in {None, <<"C", "3">>, <<"C", "6">>}}

(* ---------------------------- the command line -------------------------- *)

\* ubl_lines.extract_lines
extract_lines(xml) == extract_lines_from_xml(xml)

\* pd.read_excel(args.codes_xlsx)
read_excel(f) == IF f.exists THEN Ok(f.sheet) ELSE Raise("FileNotFoundError")

\* config.GEMINI_API_KEY as shipped
CONFIG_API_KEY == <<"A", "I", "z", "a">>

\* a or b
or(a, b) == IF Truthy(a) THEN a ELSE b

\* the reference spreadsheet given to the command line
CliCatalog ==
  [columns |-> 2,
   rows |-> << [code |-> <<"C", "1">>, desc |-> <<"a", "b">>],
               [code |-> <<"C", "2">>, desc |-> <<"C", "d">>],
               [code |-> <<"C", "3">>, desc |-> <<"A", "B">>],
               [code |-> <<"C", "4">>, desc |-> <<"a", "c">>],
               [code |-> <<"C", "5">>, desc |-> <<"a", "d">>],
               [code |-> <<"C", "6">>, desc |-> <<"a", "b", "c">>],
               [code |-> <<"C", "7">>, desc |-> <<"b", "a">>] >>]

\* the --codes-xlsx arguments: a file that may not exist
CodesFiles ==
  { [exists |-> TRUE, sheet |-> CliCatalog],
    [exists |-> TRUE, sheet |-> OneColumnCatalog],
    [exists |-> FALSE, sheet |-> OneColumnCatalog] }

\* the --xml arguments
CliInvoices ==
  { [stem |-> <<"a">>, wellformed |-> TRUE,
     items |-> << [description |-> <<"A", "B", "C">>, quantity |-> <<"1">>],
                  [description |-> <<"x", "y">>, quantity |-> <<"2">>],
                  [description |-> <<"a", "z", "z", "z", "z">>, quantity |-> <<"3">>] >>],
    [stem |-> <<"b">>, wellformed |-> TRUE,
     items |-> << [description |-> <<"a", "z", "z", "z", "z">>, quantity |-> <<"1">>],
                  [description |-> <<"A", "b">>, quantity |-> <<"2">>],
                  [description |-> <<"z", "a", "z", "z", "z">>, quantity |-> <<"3">>] >>],
    [stem |-> <<"c">>, wellformed |-> TRUE, items |-> <<>>],
    [stem |-> <<"z">>, wellformed |-> FALSE, items |-> <<>>] }

\* main() after parse_args: the arguments, and what the deployment provides
CliStart ==
  {[pc |-> "extract",
    args |-> [xml |-> xml, codes_xlsx |-> codes, no_gemini |-> ng, gemini_api_key |-> key],
    config_key |-> ck, env_key |-> ek, module_found |-> mf,
    stages |-> <<>>, lines |-> <<>>, df_codes |-> OneColumnCatalog,
    use_gemini |-> FALSE, standardized |-> <<>>, matches |-> <<>>, calls |-> <<>>,
    out_standard |-> [written |-> FALSE, lines |-> <<>>],
    out_csv |-> [written |-> FALSE, rows |-> <<>>],
    rc |-> -1] :
     xml \in CliInvoices, codes \in CodesFiles, ng \in BOOLEAN,
     key \in {None, <<"k">>}, ck \in {None, CONFIG_API_KEY}, ek \in {None, <<"e">>},
     mf \in BOOLEAN}

\* a failed stage that ends the run with the result 0
cli_failed_zero(run) == [run EXCEPT !.pc = "exit", !.rc = 0]

\* return 1 from the stage that failed
cli_failed(run) == [run EXCEPT !.pc = "exit", !.rc = 1]

\* [1/4] lines = extract_lines(args.xml)
CliExtract ==
  /\ cli.pc = "extract"
  /\ LET r == extract_lines(cli.args.xml)
         run == [cli EXCEPT !.stages = Append(@, "extract")]
     IN cli' = IF r.raised THEN cli_failed(run)
               ELSE [run EXCEPT !.pc = "load", !.lines = r.lines]
  /\ UNCHANGED <<pc, file, data, csv_dir, docs_tree, clock, runs, last, arbiter,
               sorting, running>>

\* [2/4] df_codes = pd.read_excel(args.codes_xlsx)
CliLoadCodes ==
  /\ cli.pc = "load"
  /\ LET r == read_excel(cli.args.codes_xlsx)
         run == [cli EXCEPT !.stages = Append(@, "load")]
     IN cli' = IF r.exc # "none" THEN cli_failed(run)
               ELSE [run EXCEPT !.pc = "match", !.df_codes = r.val]
  /\ UNCHANGED <<pc, file, data, csv_dir, docs_tree, clock, runs, last, arbiter,
               sorting, running>>

\* [3/4] the call of match_descriptions up to the loop over the lines
CliMatch ==
  /\ cli.pc = "match"
  /\ LET gemini_api_key == or(cli.args.gemini_api_key, or(cli.config_key, cli.env_key))
         run == [cli EXCEPT !.stages = Append(@, "match")]
     IN cli' = IF too_few_columns(cli.df_codes) THEN cli_failed(run)
               ELSE [run EXCEPT
                       !.pc = IF cli.lines = <<>> THEN "save" ELSE "lines",
                       !.use_gemini = construct_gemini(~cli.args.no_gemini, cli.module_found,
                                                       gemini_api_key, cli.env_key)]
  /\ UNCHANGED <<pc, file, data, csv_dir, docs_tree, clock, runs, last, arbiter,
               sorting, running>>

\* one iteration of the loop of match_descriptions, for the next line
CliMatchLine(response, printed) ==
  /\ cli.pc = "lines"
  /\ LET i == Len(cli.standardized) + 1
         r == match_line(cli.lines[i], cli.df_codes.rows, cli.use_gemini, response, printed)
     IN cli' = [cli EXCEPT
                  !.standardized = Append(@, r.line),
                  !.matches = Append(@, r.matches),
                  !.calls = IF r.called
                            THEN Append(@, [line |-> i, response |-> response,
                                            offered |-> top_candidates(r.matches),
                                            raised |-> r.raised])
                            ELSE @,
                  !.pc = IF i = Len(cli.lines) THEN "save" ELSE "lines"]
  /\ UNCHANGED <<pc, file, data, csv_dir, docs_tree, clock, runs, last, arbiter,
               sorting, running>>

\* [4/4] json.dump to args.out_standard, then to_csv to args.out_csv; io says
\* which of the two writes the file system refuses
CliSave(io) ==
  /\ cli.pc = "save"
  /\ LET run == [cli EXCEPT !.stages = Append(@, "save")]
         json == [written |-> TRUE, lines |-> cli.standardized]
         csv == [written |-> TRUE, rows |-> to_csv(cli.standardized)]
     IN cli' = CASE io = "json_fails" -> cli_failed(run)
                 [] io = "csv_fails" -> cli_failed([run EXCEPT !.out_standard = json])
                 [] io = "ok" -> [run EXCEPT !.out_standard = json, !.out_csv = csv,
                                             !.pc = "exit", !.rc = 0]
  /\ UNCHANGED <<pc, file, data, csv_dir, docs_tree, clock, runs, last, arbiter,
               sorting, running>>

\* the command line is started; the desktop application is not running
InitCLI ==
  /\ pc = "off"
  /\ file = [kind |-> "missing"]
  /\ data = FreshStore
  /\ csv_dir = [f \in {} |-> <<>>]
  /\ docs_tree = <<>>
  /\ clock = 0
  /\ runs = 0
  /\ last = [op |-> "init"]
  /\ cli \in CliStart
  /\ arbiter = NoCall
  /\ sorting = NotSorting
  /\ running = NotRunning

NextCLI ==
  \/ CliExtract
  \/ CliLoadCodes
  \/ CliMatch
  \/ \E response \in CliResponses, printed \in BOOLEAN : CliMatchLine(response, printed)
  \/ \E io \in {"ok", "json_fails", "csv_fails"} : CliSave(io)

SpecCLI == InitCLI /\ [][NextCLI]_vars

(* ---------------------------- the arbiter called directly --------------- *)

\* the candidate lists handed to analyze_candidates: what the lexical matching
\* of a description against CliCatalog gives, whole or cut to the top five,
\* and a list in which two candidates carry the same code
ArbiterCandidates ==
  LET of(desc) == sort_by_score_desc(candidates_from(desc, CliCatalog.rows, 1))
  IN { of(<<"a", "z", "z", "z", "z">>), top_candidates(of(<<"a", "z", "z", "z", "z">>)),
       of(<<"a", "b", "c">>), of(<<"c", "d", "z", "z", "z">>), of(<<"x", "y">>),
       << [matched_code |-> <<"C", "3">>, matched_description |-> <<"a", "b">>,
           score |-> 2857],
          [matched_code |-> <<"C", "3">>, matched_description |-> <<"A", "B">>,
           score |-> 2857],
          [matched_code |-> <<"C", "6">>, matched_description |-> <<"a", "b", "c">>,
           score |-> 2500] >> }

\* analyze_with_gemini(product_description, candidates) on a constructed arbiter
AnalyzeCandidates ==
  /\ arbiter.op = "given"
  /\ arbiter' = [op |-> "analyzed", candidates |-> arbiter.candidates,
                 response |-> arbiter.response,
                 offered |-> candidates_to_analyze(arbiter.candidates),
                 requested |-> generate_content_called(arbiter.candidates),
                 result |-> analyze_candidates(arbiter.candidates, arbiter.response)]
  /\ UNCHANGED <<pc, file, data, csv_dir, docs_tree, clock, runs, last, cli,
               sorting, running>>

\* a candidate list and the response the backend is going to give
InitArbiter ==
  /\ pc = "off"
  /\ file = [kind |-> "missing"]
  /\ data = FreshStore
  /\ csv_dir = [f \in {} |-> <<>>]
  /\ docs_tree = <<>>
  /\ clock = 0
  /\ runs = 0
  /\ last = [op |-> "init"]
  /\ cli = NotStarted
  /\ arbiter \in {[op |-> "given", candidates |-> c, response |-> r] :
                    c \in ArbiterCandidates, r \in Responses}
  /\ sorting = NotSorting
  /\ running = NotRunning

NextArbiter == AnalyzeCandidates

SpecArbiter == InitArbiter /\ [][NextArbiter]_vars

(* ---------------------------- merge sort called directly ---------------- *)

\* the names of the records to sort: equal ignoring case, equal, different
SortNames == {<<"a">>, <<"A">>, <<"b">>, <<"B">>, <<"a", "b">>}

\* The lists handed to merge_sort are drawn in InitSort; a record carries the
\* position it had in the list, which tells records of the same name apart.

\* self.data["documents"] = merge_sort(self.data["documents"], key=name)
MergeSort ==
  /\ sorting.op = "given"
  /\ sorting' = [op |-> "sorted", arr |-> sorting.arr, result |-> merge_sort(sorting.arr)]
  /\ UNCHANGED <<pc, file, data, csv_dir, docs_tree, clock, runs, last, cli, arbiter,
               running>>

InitSort ==
  /\ pc = "off"
  /\ file = [kind |-> "missing"]
  /\ data = FreshStore
  /\ csv_dir = [f \in {} |-> <<>>]
  /\ docs_tree = <<>>
  /\ clock = 0
  /\ runs = 0
  /\ last = [op |-> "init"]
  /\ cli = NotStarted
  /\ arbiter = NoCall
  /\ running = NotRunning
  /\ \E n \in 0..MaxSortLen : \E names \in [1..n -> SortNames] :
       sorting = [op |-> "given",
                  arr |-> [k \in 1..n |-> [name |-> names[k], position |-> k]]]

NextSort == MergeSort

SpecSort == InitSort /\ [][NextSort]_vars

(* ---------------------------- processing with event dispatch ------------ *)

\* ModernApp.process_invoice hands DataManager.process_invoice the callback
\* progress, which ends with self.root.update(): every progress notification
\* dispatches the events that are pending, so the handlers of the other
\* buttons (delete, recalculate, search) run at that point of the call.  Only
\* process_btn is disabled during the call.  running.at is the step of
\* DataManager.process_invoice that follows the last notification.

\* the reference files that can be selected: the spreadsheets, and a path that
\* pd.read_excel cannot read
ExcelFiles ==
  {[exists |-> TRUE, sheet |-> c] : c \in Catalogs}
    \cup {[exists |-> FALSE, sheet |-> OneColumnCatalog]}

\* what df_output.to_csv(csv_path) can do
CsvWrites == {"written", "OSError"}

\* the store as the steps of the call have left it
StoreSeen == [data |-> data, file |-> file, csv_dir |-> csv_dir]

\* whether a handler has changed the store since the last step of the call
Interleaved == running.interleaved \/ StoreSeen # running.seen

\* except Exception as e: the error is shown, the button is enabled again
process_failed(stage) ==
  /\ running' = NotRunning
  /\ last' = [op |-> "process_failed", xml |-> running.xml, stage |-> stage,
              before |-> running.before, interleaved |-> Interleaved]

\* the button is pressed: process_btn disabled, progress("Extragere linii ...")
StartProcessing(xml, excel) ==
  /\ pc = "ready"
  /\ running.at = "none"
  /\ runs < MaxEventRuns
  /\ runs' = runs + 1
  /\ running' = [at |-> "extract", xml |-> xml, excel |-> excel,
                 before |-> StoreSeen, seen |-> StoreSeen, interleaved |-> FALSE,
                 df_codes |-> OneColumnCatalog, csv_filename |-> <<>>, now |-> clock]
  /\ last' = [op |-> "process_started", xml |-> xml]
  /\ UNCHANGED <<pc, file, data, csv_dir, docs_tree, clock, cli, arbiter, sorting>>

\* lines = extract_lines_from_xml(xml_path); progress("Gasit ... linii ...")
ExtractLines ==
  /\ running.at = "extract"
  /\ IF extract_lines_from_xml(running.xml).raised
     THEN process_failed("extract")
     ELSE /\ running' = [running EXCEPT !.at = "load", !.seen = StoreSeen,
                                        !.interleaved = Interleaved]
          /\ UNCHANGED last
  /\ UNCHANGED <<pc, file, data, csv_dir, docs_tree, clock, runs, cli, arbiter, sorting>>

\* df_codes = pd.read_excel(excel_path); progress("Matching fuzzy ...")
ReadExcel ==
  /\ running.at = "load"
  /\ LET r == read_excel(running.excel)
     IN IF r.exc # "none"
        THEN process_failed("load")
        ELSE /\ running' = [running EXCEPT !.at = "match", !.df_codes = r.val,
                                           !.seen = StoreSeen,
                                           !.interleaved = Interleaved]
             /\ UNCHANGED last
  /\ UNCHANGED <<pc, file, data, csv_dir, docs_tree, clock, runs, cli, arbiter, sorting>>

\* standardized = fuzzy_match_descriptions(lines, df_codes);
\* progress("Salvare CSV standardizat...")
MatchLines ==
  /\ running.at = "match"
  /\ IF Pipeline[running.xml, running.df_codes].raised
     THEN process_failed("match")
     ELSE /\ running' = [running EXCEPT !.at = "save_csv", !.seen = StoreSeen,
                                        !.interleaved = Interleaved]
          /\ UNCHANGED last
  /\ UNCHANGED <<pc, file, data, csv_dir, docs_tree, clock, runs, cli, arbiter, sorting>>

\* the artifact is written; progress("Actualizare inventory...")
SaveCsv(dt, io) ==
  /\ running.at = "save_csv"
  /\ clock' = clock + dt
  /\ LET now == clock + dt
         standardized == Pipeline[running.xml, running.df_codes].standardized
         csv_filename == strftime(now) \o <<"_">> \o running.xml.stem
                           \o <<"_standardized.csv">>
     IN IF io # "written"
        THEN /\ process_failed("save_csv")
             /\ UNCHANGED csv_dir
        ELSE /\ csv_dir' = [f \in DOMAIN csv_dir \cup {csv_filename} |->
                              IF f = csv_filename THEN to_csv(standardized)
                              ELSE csv_dir[f]]
             /\ running' = [running EXCEPT
                              !.at = "update", !.csv_filename = csv_filename,
                              !.now = now, !.interleaved = Interleaved,
                              !.seen = [data |-> data, file |-> file,
                                        csv_dir |-> csv_dir']]
             /\ UNCHANGED last
  /\ UNCHANGED <<pc, file, data, docs_tree, runs, cli, arbiter, sorting>>

\* the ledger is updated, the document appended, the registry sorted and the
\* store saved; progress("Complet!")
UpdateAndSave ==
  /\ running.at = "update"
  /\ LET run == Pipeline[running.xml, running.df_codes]
         doc == [name |-> running.xml.stem,
                 csv_filename |-> running.csv_filename,
                 date |-> running.now \div SecondsPerMinute,
                 lines_count |-> Len(run.lines),
                 matched_count |->
                   Cardinality({i \in 1..Len(run.standardized) :
                                  run.standardized[i].status = "matched"})]
     IN /\ data' = [documents |-> merge_sort(Append(data.documents, doc)),
                    inventory |-> update_inventory(data.inventory, run.standardized)]
        /\ file' = json_dump(data')
        /\ running' = [at |-> "complete", xml |-> running.xml, excel |-> running.excel,
                       before |-> running.before, interleaved |-> Interleaved,
                       seen |-> [data |-> data', file |-> file', csv_dir |-> csv_dir],
                       df_codes |-> running.df_codes,
                       csv_filename |-> running.csv_filename, now |-> running.now,
                       doc |-> doc]
  /\ UNCHANGED <<pc, csv_dir, docs_tree, clock, runs, last, cli, arbiter, sorting>>

\* DataManager.process_invoice returns doc; the lists are refreshed and the
\* button is enabled again
ProcessReturns ==
  /\ running.at = "complete"
  /\ docs_tree' = data.documents
  /\ running' = NotRunning
  /\ last' = [op |-> "process", doc |-> running.doc,
              standardized |-> Pipeline[running.xml, running.df_codes].standardized,
              before |-> running.before, interleaved |-> Interleaved]
  /\ UNCHANGED <<pc, file, data, csv_dir, clock, runs, cli, arbiter, sorting>>

NextEvents ==
  \/ \E xml \in Invoices, excel \in ExcelFiles : StartProcessing(xml, excel)
  \/ ExtractLines
  \/ ReadExcel
  \/ MatchLines
  \/ \E dt \in ClockSteps, io \in CsvWrites : SaveCsv(dt, io)
  \/ UpdateAndSave
  \/ ProcessReturns
  \/ \E row \in 1..MaxEventRuns : DeleteDocument(row)
  \/ RecalculateInventory
  \/ \E query \in Queries : SearchDocuments(query)

SpecEvents == Init /\ [][NextEvents]_vars

(* ---------------------------- properties -------------------------------- *)

\* the descriptions a ledger of the model can be keyed by
Descriptions == DOMAIN data.inventory \cup {Catalog.rows[i].desc : i \in 1..Len(Catalog.rows)}

\* the artifacts referenced by the registered documents
RegisteredArtifacts ==
  {data.documents[i].csv_filename : i \in 1..Len(data.documents)} \cap DOMAIN csv_dir

\* the lines <<file, index>> of the registered artifacts that are matched to d
\* and whose quantity parses as a number
CountedLines(d) ==
  {fi \in UNION {{<<f, i>> : i \in 1..Len(csv_dir[f])} : f \in RegisteredArtifacts} :
     /\ csv_dir[fi[1]][fi[2]].matched_description = d
     /\ ParseFloat(csv_dir[fi[1]][fi[2]].quantity).ok}

RECURSIVE SumStored(_)
SumStored(S) ==
  IF S = {} THEN 0
  ELSE LET fi == CHOOSE x \in S : TRUE
       IN ParseFloat(csv_dir[fi[1]][fi[2]].quantity).val.v + SumStored(S \ {fi})

\* the indices of the lines of one document that are matched to d and whose
\* quantity parses as a number
CountedIn(lines, d) ==
  {i \in 1..Len(lines) :
     /\ lines[i].matched_description = d
     /\ ParseFloat(lines[i].quantity).ok}

RECURSIVE SumLines(_, _)
SumLines(lines, I) ==
  IF I = {} THEN 0
  ELSE LET i == CHOOSE x \in I : TRUE
       IN ParseFloat(lines[i].quantity).val.v + SumLines(lines, I \ {i})

\* C1: after a recompute the ledger holds, for every description, the sum of
\* the quantities of the lines of the registered documents' artifacts that are
\* matched to it and whose quantity parses as a number, and no other key.
C1_RecomputeEqualsSum ==
  last.op = "recalculate" =>
    \A d \in Descriptions :
      IF CountedLines(d) = {} THEN d \notin DOMAIN data.inventory
      ELSE /\ d \in DOMAIN data.inventory
           /\ data.inventory[d] = Num(SumStored(CountedLines(d)))

\* the ledger after the quantities of the rows of one artifact are subtracted
\* and the entries that drop to zero or below are removed
Subtracted(inventory, rows) ==
  LET left(d) == FAdd(inventory[d], Num(0 - SumLines(rows, CountedIn(rows, d))))
      kept == {d \in DOMAIN inventory : ~FLeqZero(left(d))}
  IN [d \in kept |-> left(d)]

\* C2: deleting a registered document subtracts the quantity of every line of
\* its artifact from the ledger and removes the entries that drop to <= 0.
C2_DeleteSubtracts ==
  (last.op = "delete" /\ last.found) =>
    data.inventory = Subtracted(last.inventory, last.rows)

\* C3: processing an invoice raises the ledger entry of every description by
\* the quantities of the new document's lines that are matched to it and parse
\* as a number (creating the entry when absent); lines with no match or with a
\* non-numeric quantity leave the ledger as it was.
C3_IncrementalAdd ==
  [][last'.op = "process" =>
       LET lines == last'.standardized
       IN \A d \in Descriptions \cup DOMAIN data'.inventory :
            IF CountedIn(lines, d) = {}
            THEN /\ (d \in DOMAIN data'.inventory) = (d \in DOMAIN data.inventory)
                 /\ d \in DOMAIN data.inventory => data'.inventory[d] = data.inventory[d]
            ELSE /\ d \in DOMAIN data'.inventory
                 /\ data'.inventory[d] =
                      FAdd(IF d \in DOMAIN data.inventory THEN data.inventory[d] ELSE Num(0),
                           Num(SumLines(lines, CountedIn(lines, d))))]_vars

\* two identical documents have brought the entry to 12.5 and then to 25.0, and
\* a document with a matched line of 2, an unmatched line and a line with a
\* non-numeric quantity has then brought it to 27.0 and added no other key
C3_Witness ==
  /\ last.op = "process"
  /\ last.doc.name = <<"B">>
  /\ DOMAIN data.inventory = {<<"a", "b">>}
  /\ data.inventory[<<"a", "b">>] = Num(270)

\* C4: a recompute that follows a recompute leaves the ledger as it is.
C4_RecomputeIdempotent ==
  [][(last.op = "recalculate" /\ last'.op = "recalculate") =>
       data'.inventory = data.inventory]_vars

\* a recompute has followed a recompute over stored artifacts
C4_Witness ==
  /\ last.op = "recalculate"
  /\ last.again
  /\ DOMAIN csv_dir # {}
  /\ DOMAIN data.inventory # {}

\* C5: processing again the invoice of the document just deleted restores the
\* ledger held before the deletion, when no entry would drop to <= 0.
C5_DeleteThenReAddRestores ==
  [][(/\ last.op = "delete"
      /\ last.deleted = <<last.selected>>
      /\ last'.op = "process"
      /\ to_csv(last'.standardized) = last.rows
      /\ \A d \in DOMAIN last.inventory :
           ~FLeqZero(FAdd(last.inventory[d],
                          Num(0 - SumLines(last.rows, CountedIn(last.rows, d))))))
       => data'.inventory = last.inventory]_vars

\* C6: the ledger never holds an entry whose quantity is <= 0.
C6_NoNonPositiveEntry ==
  pc = "ready" => \A d \in DOMAIN data.inventory : ~FLeqZero(data.inventory[d])

\* C7: the registry is sorted by lower-cased name, ascending.
C7_RegistrySorted ==
  pc = "ready" =>
    \A i \in 1..(Len(data.documents) - 1) :
      StrLeq(lower(data.documents[i].name), lower(data.documents[i + 1].name))

\* after insertions and a deletion the registry holds "a" before "B", the
\* opposite of their order by code point
C7_Witness ==
  /\ last.op = "delete"
  /\ last.found
  /\ \E i \in 1..(Len(data.documents) - 1) :
       /\ data.documents[i].name = <<"a">>
       /\ data.documents[i + 1].name = <<"B">>

RemoveAt(q, i) == SubSeq(q, 1, i - 1) \o SubSeq(q, i + 1, Len(q))

\* C9: a deletion removes exactly the selected record and its artifact; every
\* other record stays, in the same order, with its artifact.
C9_DeleteExactlySelected ==
  [][last'.op = "delete" =>
       /\ \E i \in 1..Len(data.documents) :
            /\ data.documents[i] = last'.selected
            /\ data'.documents = RemoveAt(data.documents, i)
       /\ DOMAIN csv_dir' = DOMAIN csv_dir \ {last'.selected.csv_filename}]_vars

\* C10: load_data lets no exception escape, and gives the fresh empty store
\* for a missing file, a blank file and a file that cannot be decoded.
C10_LoadNeverRaises ==
  last.op = "load" =>
    /\ last.raised = "none"
    /\ pc = "ready"
    /\ (\/ last.source.kind = "missing"
        \/ last.source.kind = "text"
        \/ (last.source.kind = "json" /\ last.source.value.t # "obj"))
         => data = FreshStore

\* a store file holding text that is no JSON has been loaded
C10_Witness ==
  /\ last.op = "load"
  /\ last.source.kind = "text"
  /\ strip(last.source.text) # <<>>
  /\ data = FreshStore

(* ---------------------------- properties of the matching ---------------- *)

\* the descriptions of the invoice lines given to the command line
CliDescriptions ==
  UNION {{xml.items[i].description : i \in 1..Len(xml.items)} : xml \in CliInvoices}

\* the similarity of every such description to every row of a spreadsheet
Similarity ==
  [desc \in CliDescriptions, f \in CodesFiles |->
     [k \in 1..Len(f.sheet.rows) |-> ratio(lower(desc), lower(f.sheet.rows[k].desc))]]

\* the catalog rows whose similarity to the description reaches min_score
Passing(desc, rows) ==
  {k \in 1..Len(rows) :
     ScoreAtLeast(Similarity[desc, cli.args.codes_xlsx][k], min_score)}

\* the rounded score of catalog row k for the description
ScoreOf(desc, rows, k) == Round4(Similarity[desc, cli.args.codes_xlsx][k])

\* the passing row of highest score, the earliest of the catalog among equals
BestRow(desc, rows) ==
  CHOOSE k \in Passing(desc, rows) : \A m \in Passing(desc, rows) :
     \/ ScoreOf(desc, rows, k) > ScoreOf(desc, rows, m)
     \/ ScoreOf(desc, rows, k) = ScoreOf(desc, rows, m) /\ k <= m

\* the lines the matching loop has annotated so far
Annotated == IF cli.pc = "idle" THEN {} ELSE 1..Len(cli.standardized)

\* the arbiter was invoked for line i
Invoked(i) == \E c \in 1..Len(cli.calls) : cli.calls[c].line = i

\* line i carries the code, description and score of its best lexical candidate
CarriesBest(i) ==
  LET desc == cli.lines[i].description
      rows == cli.df_codes.rows
      k == BestRow(desc, rows)
  IN /\ cli.standardized[i].matched_code = rows[k].code
     /\ cli.standardized[i].matched_description = rows[k].desc
     /\ cli.standardized[i].score = ScoreOf(desc, rows, k)

\* C11: a line for which no catalog entry reaches min_score is annotated with
\* no code, no description, score 0.0 and the status fara_potriviri, and the
\* arbiter is not invoked for it, enabled or not.
C11_NoCandidateNoArbiter ==
  \A i \in Annotated :
    Passing(cli.lines[i].description, cli.df_codes.rows) = {} =>
      /\ cli.standardized[i].matched_code = None
      /\ cli.standardized[i].matched_description = None
      /\ cli.standardized[i].score = 0
      /\ cli.standardized[i].status = "fara_potriviri"
      /\ ~Invoked(i)

\* a finished run with the arbiter enabled and invoked for another line, in
\* which a line without candidates was annotated
C11_Witness ==
  /\ cli.pc = "exit"
  /\ cli.rc = 0
  /\ cli.use_gemini
  /\ cli.calls # <<>>
  /\ \E i \in Annotated :
       /\ Passing(cli.lines[i].description, cli.df_codes.rows) = {}
       /\ cli.standardized[i].status = "fara_potriviri"

\* C12: a line with a candidate, when the arbiter is disabled or the best score
\* reaches gemini_threshold, is not given to the arbiter, carries the best
\* candidate's code, description and score, and has the status potrivit_fuzzy
\* when the score reaches the threshold and fuzzy_confidence_scazut otherwise.
C12_BestAdoptedWithoutArbiter ==
  \A i \in Annotated :
    LET desc == cli.lines[i].description
        rows == cli.df_codes.rows
    IN Passing(desc, rows) # {} =>
         LET best == ScoreOf(desc, rows, BestRow(desc, rows))
         IN (~cli.use_gemini \/ best >= gemini_threshold) =>
              /\ ~Invoked(i)
              /\ CarriesBest(i)
              /\ cli.standardized[i].status =
                   (IF best >= gemini_threshold THEN "potrivit_fuzzy"
                    ELSE "fuzzy_confidence_scazut")
              /\ DOMAIN cli.standardized[i] =
                   DOMAIN cli.lines[i]
                     \cup {"matched_code", "matched_description", "score", "status"}

\* a finished run with the arbiter opted out that holds a line of low score
\* and a line of high score
C12_Witness ==
  /\ cli.pc = "exit"
  /\ cli.rc = 0
  /\ cli.args.no_gemini
  /\ \E i \in Annotated : cli.standardized[i].status = "potrivit_fuzzy"
  /\ \E i \in Annotated : cli.standardized[i].status = "fuzzy_confidence_scazut"

\* C13: when the arbitration of a line raises, the line carries its best
\* lexical candidate with the status eroare_gemini_fallback, and the loop goes
\* on: the result holds one annotated line per input line, in input order.
C13_ArbiterErrorFallsBack ==
  /\ \A c \in 1..(IF cli.pc = "idle" THEN 0 ELSE Len(cli.calls)) :
       cli.calls[c].raised =>
         /\ CarriesBest(cli.calls[c].line)
         /\ cli.standardized[cli.calls[c].line].status = "eroare_gemini_fallback"
  /\ \A i \in Annotated :
       /\ i <= Len(cli.lines)
       /\ \A f \in DOMAIN cli.lines[i] : cli.standardized[i][f] = cli.lines[i][f]
  /\ (cli.pc = "save" \/ (cli.pc = "exit" /\ cli.stages[Len(cli.stages)] = "save"))
       => Len(cli.standardized) = Len(cli.lines)

\* a run that returned 0 although the arbitration of its first line raised
C13_Witness ==
  /\ cli.pc = "exit"
  /\ cli.rc = 0
  /\ Len(cli.lines) > 1
  /\ \E c \in 1..Len(cli.calls) : cli.calls[c].raised /\ cli.calls[c].line = 1

\* the catalog row a candidate was made from (the codes of a catalog of the
\* model are distinct)
RowOf(candidate, rows) ==
  CHOOSE k \in 1..Len(rows) : rows[k].code = candidate.matched_code

\* C15: the candidates of a line are exactly the catalog entries whose
\* similarity reaches min_score, by non-increasing score and, among equal
\* scores, in catalog order; the best candidate that is adopted is the first.
C15_CandidatesFilteredAndOrdered ==
  \A i \in Annotated :
    LET desc == cli.lines[i].description
        rows == cli.df_codes.rows
        ms == cli.matches[i]
    IN /\ {RowOf(ms[p], rows) : p \in 1..Len(ms)} = Passing(desc, rows)
       /\ Len(ms) = Cardinality(Passing(desc, rows))
       /\ \A p \in 1..Len(ms) :
            /\ ms[p].matched_description = rows[RowOf(ms[p], rows)].desc
            /\ ms[p].score = ScoreOf(desc, rows, RowOf(ms[p], rows))
       /\ \A p, q \in 1..Len(ms) :
            p < q => \/ ms[p].score > ms[q].score
                     \/ /\ ms[p].score = ms[q].score
                        /\ RowOf(ms[p], rows) < RowOf(ms[q], rows)
       /\ (ms # <<>> /\ ~Invoked(i)) =>
            /\ cli.standardized[i].matched_code = ms[1].matched_code
            /\ cli.standardized[i].matched_description = ms[1].matched_description
            /\ cli.standardized[i].score = ms[1].score

\* a line all seven catalog entries are candidates of: the sixth entry comes
\* first, and entries of equal score follow it
C15_Witness ==
  /\ cli.pc = "exit"
  /\ \E i \in Annotated :
       /\ Len(cli.matches[i]) = 7
       /\ cli.matches[i][1].matched_code = <<"C", "6">>
       /\ cli.matches[i][2].score = cli.matches[i][3].score
       /\ cli.matches[i][2].score > cli.matches[i][7].score
       /\ cli.standardized[i].matched_code = <<"C", "6">>

\* two characters that differ in case at most
SameLetter(c, d) == c = d \/ {c, d} \in {{"a", "A"}, {"b", "B"}, {"c", "C"}, {"d", "D"}}

\* two texts that are equal once lower-cased
EqualIgnoringCase(s, t) ==
  Len(s) = Len(t) /\ \A j \in 1..Len(s) : SameLetter(s[j], t[j])

\* two non-empty texts that share no letter
DisjointLetters(s, t) ==
  \A j \in 1..Len(s) : \A m \in 1..Len(t) : ~SameLetter(s[j], t[m])

\* C16: a line whose description equals a catalog description once both are
\* lower-cased scores 1.0 against it and is matched, with score 1.0 and the
\* status potrivit_fuzzy, to the first catalog entry of that description; a
\* description that shares no character with a catalog description scores 0.0.
C16_IdenticalScoresOne ==
  \A i \in Annotated :
    LET desc == cli.lines[i].description
        rows == cli.df_codes.rows
        same == {k \in 1..Len(rows) : EqualIgnoringCase(desc, rows[k].desc)}
    IN /\ \A k \in same : Similarity[desc, cli.args.codes_xlsx][k] = <<2 * Len(desc), 2 * Len(desc)>>
       /\ same # {} =>
            /\ cli.standardized[i].score = 10000
            /\ cli.standardized[i].status = "potrivit_fuzzy"
            /\ \E k \in same :
                 /\ \A m \in same : k <= m
                 /\ cli.standardized[i].matched_code = rows[k].code
                 /\ cli.standardized[i].matched_description = rows[k].desc
       /\ \A k \in 1..Len(rows) :
            DisjointLetters(desc, rows[k].desc) =>
              /\ Similarity[desc, cli.args.codes_xlsx][k][1] = 0
              /\ cli.standardized[i].matched_code # rows[k].code

\* a finished run with the arbiter enabled in which a description written in
\* another case than two catalog entries was matched to the first of them, and
\* a description sharing no character with an entry was not matched to it
C16_Witness ==
  /\ cli.pc = "exit"
  /\ cli.use_gemini
  /\ \E i \in Annotated :
       /\ cli.lines[i].description = <<"A", "b">>
       /\ cli.standardized[i].matched_code = <<"C", "1">>
       /\ cli.standardized[i].matched_description = <<"a", "b">>
       /\ cli.standardized[i].score = 10000
       /\ DisjointLetters(cli.lines[i].description, cli.df_codes.rows[2].desc)

\* an API key reaches match_descriptions or the arbiter's constructor
KeyAvailable ==
  \/ Truthy(cli.args.gemini_api_key)
  \/ Truthy(cli.config_key)
  \/ Truthy(cli.env_key)

\* the statuses a result of analyze_candidates carries
ArbiterStatuses == {"gemini_analyzed", "gemini_no_match", "gemini_fallback", "no_match"}

\* C19: when the arbiter is not opted out, an API key is available and the
\* best score of a line lies in [min_score, gemini_threshold), the arbiter is
\* invoked with the first five candidates and the line takes the arbiter's
\* code, description, confidence (as score), reasoning and status, and keeps
\* the best lexical score as fuzzy_score.
C19_LowScoreGoesToArbiter ==
  \A i \in Annotated :
    LET desc == cli.lines[i].description
        rows == cli.df_codes.rows
    IN (/\ ~cli.args.no_gemini
        /\ KeyAvailable
        /\ Passing(desc, rows) # {}
        /\ ScoreOf(desc, rows, BestRow(desc, rows)) < gemini_threshold) =>
         \E c \in 1..Len(cli.calls) :
           LET call == cli.calls[c]
               result == analyze_candidates(call.offered, call.response)
               line == cli.standardized[i]
           IN /\ call.line = i
              /\ call.offered = SubSeq(cli.matches[i], 1, 5)
              /\ ~call.raised =>
                   /\ line.matched_code = result.matched_code
                   /\ line.matched_description = result.matched_description
                   /\ line.score = result.confidence
                   /\ line.reasoning = result.reasoning
                   /\ line.status = result.status
                   /\ line.status \in ArbiterStatuses
                   /\ line.fuzzy_score = ScoreOf(desc, rows, BestRow(desc, rows))

(* ---------------------------- properties of the command line ----------- *)

\* the stages of main in the order of the code
Stages == <<"extract", "load", "match", "save">>

\* stage name has been entered
Entered(name) == \E n \in 1..Len(cli.stages) : cli.stages[n] = name

\* C17: with a spreadsheet of fewer than two columns the matching fails
\* before anything is matched: the run returns 1 from the matching stage, no
\* line is scored or annotated, the arbiter is not constructed and not invoked.
C17_TooFewColumnsFailsFirst ==
  (cli.pc # "idle" /\ Entered("match") /\ cli.args.codes_xlsx.sheet.columns < 2) =>
     /\ cli.pc = "exit"
     /\ cli.rc = 1
     /\ cli.stages = SubSeq(Stages, 1, 3)
     /\ cli.standardized = <<>>
     /\ cli.matches = <<>>
     /\ cli.calls = <<>>
     /\ ~cli.use_gemini
     /\ ~cli.out_standard.written
     /\ ~cli.out_csv.written

\* the run of an invoice with lines, the arbiter asked for and available, on
\* a spreadsheet that has the code column only
C17_Witness ==
  /\ cli.pc = "exit"
  /\ Entered("match")
  /\ cli.args.codes_xlsx.sheet.columns < 2
  /\ cli.lines # <<>>
  /\ ~cli.args.no_gemini
  /\ cli.module_found
  /\ cli.args.gemini_api_key # None

C14_ResultNamesOfferedCandidate ==
  (arbiter.op = "analyzed" /\ arbiter.offered # <<>>) =>
     \/ /\ arbiter.result.matched_code = None
        /\ arbiter.result.matched_description = None
     \/ \E k \in 1..Len(arbiter.offered) :
          /\ arbiter.result.matched_code = arbiter.offered[k].matched_code
          /\ arbiter.result.matched_description = arbiter.offered[k].matched_description

\* the backend answered a code that none of several candidates carries, and
\* the result names the first candidate
C14_Witness ==
  /\ arbiter.op = "analyzed"
  /\ Len(arbiter.offered) > 1
  /\ arbiter.response.kind = "text"
  /\ arbiter.response.lines = <<"{body}">>
  /\ "selected_code" \in DOMAIN arbiter.response.value.v
  /\ arbiter.response.value.v.selected_code = <<"Z", "9">>
  /\ arbiter.result.matched_code = arbiter.offered[1].matched_code

\* the response text is one that json.loads rejects
Undecodable(response) ==
  /\ response.kind = "text"
  /\ json_loads_lines(response_json_text(response.lines), response.value).exc # "none"

\* the response is a JSON object whose selected_code is a text
NamesCode(response) ==
  /\ response.kind = "text"
  /\ ~Undecodable(response)
  /\ response.value.t = "obj"
  /\ "selected_code" \in DOMAIN response.value.v
  /\ response.value.v.selected_code # None

\* no offered candidate carries the code the response names
NamesNoOfferedCode(response, offered) ==
  /\ NamesCode(response)
  /\ \A k \in 1..Len(offered) :
       offered[k].matched_code # response.value.v.selected_code

\* the result is the fallback to the first offered candidate
IsFallback(result, offered) ==
  /\ result.matched_code = offered[1].matched_code
  /\ result.matched_description = offered[1].matched_description
  /\ result.confidence = offered[1].score
  /\ result.status = "gemini_fallback"
  /\ Len(result.reasoning) >= 3
  /\ result.reasoning[1] = "Analiza Gemini a esuat: "
  /\ result.reasoning[2] # ""
  /\ result.reasoning[Len(result.reasoning)] = ". Folosesc cel mai bun rezultat fuzzy."

C21_EmptyListNoMatchNoRequest ==
  (arbiter.op = "analyzed" /\ arbiter.candidates = <<>>) =>
     /\ ~arbiter.requested
     /\ arbiter.result.matched_code = None
     /\ arbiter.result.matched_description = None
     /\ arbiter.result.confidence = 0
     /\ arbiter.result.status = "no_match"
     /\ "ai_method" \notin DOMAIN arbiter.result

\* an empty list was analysed while the backend had an object naming a
\* candidate code ready, and a list that is not empty did send a request
C21_Witness ==
  /\ arbiter.op = "analyzed"
  /\ arbiter.candidates = <<>>
  /\ arbiter.response.kind = "text"
  /\ arbiter.response.lines = <<"{body}">>
  /\ arbiter.response.value.t = "obj"
  /\ "selected_code" \in DOMAIN arbiter.response.value.v
  /\ arbiter.response.value.v.selected_code = <<"C", "3">>
  /\ arbiter.result.status = "no_match"

(* ---------------------------- C22 ---------------------------- *)

\* C22: analyze_candidates offers the backend the first min_candidates = 5
\* candidates of a longer list and all candidates of a list of 5 or fewer, so
\* the offered candidates are never more than 5.
C22_OffersFirstFive ==
  arbiter.op = "analyzed" =>
     /\ Len(arbiter.offered) <= min_candidates
     /\ arbiter.offered = SubSeq(arbiter.candidates, 1, Len(arbiter.offered))
     /\ Len(arbiter.candidates) <= min_candidates => arbiter.offered = arbiter.candidates
     /\ Len(arbiter.candidates) > min_candidates => Len(arbiter.offered) = min_candidates

\* the candidate beyond the fifth is eligible for selection: the backend named
\* the sixth candidate of the list and the result adopts it
C22_SixthSelected ==
  /\ arbiter.op = "analyzed"
  /\ Len(arbiter.candidates) > min_candidates
  /\ arbiter.result.status = "gemini_analyzed"
  /\ arbiter.result.matched_code = arbiter.candidates[6].matched_code
  /\ \A k \in 1..5 : arbiter.candidates[k].matched_code # arbiter.result.matched_code

(* ---------------------------- C23 ---------------------------- *)

\* C23: merge_sort returns a permutation of its input in which two records
\* whose names are equal ignoring case keep the relative order of the input.
C23_MergeSortStable ==
  sorting.op = "sorted" =>
     /\ Len(sorting.result) = Len(sorting.arr)
     /\ \A k \in 1..Len(sorting.arr) :
          \E m \in 1..Len(sorting.result) : sorting.result[m] = sorting.arr[k]
     /\ \A i, j \in 1..Len(sorting.result) :
          (i < j /\ lower(sorting.result[i].name) = lower(sorting.result[j].name))
             => sorting.result[i].position < sorting.result[j].position

\* a list of four records was reordered by the sort, and it holds two records
\* of names equal ignoring case on either side of the middle, "B" before "b",
\* with a smaller name after them
C23_Witness ==
  /\ sorting.op = "sorted"
  /\ Len(sorting.arr) = 4
  /\ sorting.arr[2].name = <<"B">>
  /\ sorting.arr[3].name = <<"b">>
  /\ sorting.arr[4].name = <<"a">>
  /\ sorting.result # sorting.arr
  /\ sorting.result[1].position = 4

(* ---------------------------- properties of the migration -------------- *)

\* the application was started a second time: the load that has just run
\* followed a load and a restart
SecondLoad == last.op = "load" /\ "unset" \notin DOMAIN last.previous

\* C24: the migration is idempotent.  Migrating the store that a load has
\* migrated gives the same store and writes nothing, at whatever time it runs;
\* and a second start of the application on the file the first start left
\* loads the same store, changes no record and does not write the file.
C24_MigrationIdempotent ==
  /\ (last.op = "load" /\ pc = "ready") =>
        \A dt \in {0, SecondsPerMinute} :
           LET again == migrate_old_data(json_dump(data).value, clock + dt)
           IN /\ again.exc = "none"
              /\ again.val = data
              /\ ~again.saved
  /\ SecondLoad =>
        /\ data = last.previous
        /\ ~last.saved
        /\ file = last.source

\* the second start loaded the file that the first start had written after
\* converting a record without a name, a minute or more earlier
C24_Witness ==
  /\ SecondLoad
  /\ last.source.kind = "json"
  /\ last.source = json_dump(data)
  /\ clock >= SecondsPerMinute
  /\ \E i \in 1..Len(data.documents) :
        /\ data.documents[i].name = <<"U", "n", "k", "n", "o", "w", "n">>
        /\ data.documents[i].date = 0

(* ---------------------------- C25 ---------------------------- *)

\* a load read a decodable store file and its migration returned a store
Migrated == last.op = "load" /\ last.source.kind = "json" /\ file.kind = "json"

\* C25: the migration runs during load, before anything else touches the
\* stored records; whenever it changed anything in the loaded store (a record
\* upgraded, a missing top-level key added) the store is persisted at once, so
\* the file holds the migrated store and the next load finds nothing to migrate.
C25_ChangedStoreRepersisted ==
  /\ pc = "boot" => "unset" \in DOMAIN data
  /\ Migrated => file = json_dump(data)
  /\ (SecondLoad /\ Migrated) => last.source = json_dump(data)

\* a store file without the "documents" key was loaded a second time, and the
\* file still lacks the key
C25_KeyAddedAgain ==
  /\ SecondLoad
  /\ Migrated
  /\ "documents" \notin DOMAIN last.source.value.v
  /\ file = last.source
  /\ data.documents = <<>>

(* ---------------------------- C30 ---------------------------- *)

\* the artifact reference of a stored record: "filename" in the old format,
\* "csv_filename" in the new one
ArtifactKeys(doc) == {"filename", "csv_filename"} \cap DOMAIN doc

\* C30: the migration loses no known data.  Every field among name, artifact
\* reference, date, lines_count and matched_count that a stored record has
\* before the migration has the same value after it; the records are as many
\* and in the same order, and the inventory mapping is the stored one.
C30_MigrationKeepsKnownData ==
  (/\ Migrated
   /\ "documents" \in DOMAIN last.source.value.v
   /\ last.source.value.v.documents.t = "list") =>
     LET before == last.source.value.v.documents.v
     IN /\ Len(data.documents) = Len(before)
        /\ \A i \in 1..Len(before) :
             /\ \A k \in {"name", "date", "lines_count", "matched_count"}
                          \cap DOMAIN before[i].v :
                  /\ k \in DOMAIN data.documents[i]
                  /\ data.documents[i][k] = before[i].v[k]
             /\ ArtifactKeys(before[i].v) # {} =>
                  /\ "csv_filename" \in DOMAIN data.documents[i]
                  /\ \E k \in ArtifactKeys(before[i].v) :
                       data.documents[i].csv_filename = before[i].v[k]
        /\ "inventory" \in DOMAIN last.source.value.v =>
             data.inventory = last.source.value.v.inventory

\* a stored record with a known lines_count of 3 and no matched_count comes
\* out of the migration with lines_count 0
C30_KnownCountZeroed ==
  /\ Migrated
  /\ last.source.value.v.documents.t = "list"
  /\ \E i \in 1..Len(data.documents) :
       /\ "lines_count" \in DOMAIN last.source.value.v.documents.v[i].v
       /\ last.source.value.v.documents.v[i].v.lines_count = 3
       /\ data.documents[i].lines_count = 0

(* ---------------------------- C26 ---------------------------- *)

\* the run that has just ended left the store as a whole run does: a failed
\* run left registry and ledger, in memory and on disk, as they were before
\* the call; a successful run left the document registered, the ledger
\* increased by the document's lines, and both on disk
EndedAsAWhole ==
  /\ last.op = "process_failed" =>
       /\ data = last.before.data
       /\ file = last.before.file
  /\ last.op = "process" =>
       /\ \E i \in 1..Len(data.documents) : data.documents[i] = last.doc
       /\ data.inventory = update_inventory(last.before.data.inventory,
                                            last.standardized)
       /\ file = json_dump(data)

\* C26: a process_invoice run completes or fails as a whole.  If extraction,
\* catalog load, matching or artifact writing fails, registry and ledger are,
\* in memory and on disk, exactly as before the call; on success the ledger
\* update and the registry entry are both present and persisted together.
C26_RunCompletesOrFailsAsAWhole ==
  last.op \in {"process", "process_failed"} => EndedAsAWhole

\* the same for the runs during which no dispatched handler changed the store
C26_UninterruptedRunAsAWhole ==
  (last.op \in {"process", "process_failed"} /\ ~last.interleaved) => EndedAsAWhole

\* a run failed at the catalog load after a document was deleted by a handler
\* dispatched from its first progress notification
C26_FailedRunChangedRegistry ==
  /\ last.op = "process_failed"
  /\ last.stage = "load"
  /\ Len(last.before.data.documents) = 1
  /\ data.documents = <<>>

(* ---------------------------- C27 ---------------------------- *)

\* C27: mutations of ledger and registry are serialized.  While a
\* process_invoice run is in progress no deletion and no recompute begins, so
\* when the run returns the ledger is the ledger of before the run increased
\* by the lines of the document, nothing counted twice and nothing lost.
C27_MutationsSerialized ==
  /\ running.at # "none" =>
       ~(last.op = "recalculate" \/ (last.op = "delete" /\ last.found))
  /\ last.op = "process" =>
       data.inventory = update_inventory(last.before.data.inventory,
                                        last.standardized)

\* the first run on an empty store has returned with the quantity 12.5 of its
\* only line counted twice: a recompute dispatched after the artifact was
\* written counted the line, and the run then added it again
C27_CountedTwice ==
  /\ last.op = "process"
  /\ runs = 1
  /\ Len(data.documents) = 1
  /\ last.before.data = FreshStore
  /\ last.doc.lines_count = 1
  /\ DOMAIN data.inventory = {<<"a", "b">>}
  /\ data.inventory[<<"a", "b">>] = Num(250)

(* ---------------------------- C28 ---------------------------- *)

\* the ledger that recalculate_inventory builds from the artifacts in dir
Recomputed(dir) == recalculate_files(EmptyLedger, dir, DOMAIN dir)

\* C28: from an empty store, after successful process_invoice runs only, the
\* incrementally maintained ledger equals the ledger that a recompute would
\* build from the stored artifacts.  Stated as the step that carries it from
\* run to run: it holds of the empty store, and a successful run that starts
\* with the two ledgers equal ends with them equal.
C28_IncrementalEqualsRecompute ==
  [][(last'.op = "process" /\ data.inventory = Recomputed(csv_dir))
       => data'.inventory = Recomputed(csv_dir')]_vars

\* the first run, of an invoice with a matched line whose quantity is empty,
\* has left a ledger without the entry that a recompute would create for it
C28_EmptyQuantityDiffers ==
  /\ last.op = "process"
  /\ runs = 1
  /\ \E i \in 1..Len(last.standardized) :
       /\ last.standardized[i].quantity = <<>>
       /\ last.standardized[i].matched_description = <<"a", "b">>
  /\ <<"a", "b">> \notin DOMAIN data.inventory
  /\ <<"a", "b">> \in DOMAIN Recomputed(csv_dir)
  /\ Recomputed(csv_dir)[<<"a", "b">>] = NaNFloat

\* two runs of the same invoice within one second have written one artifact
\* and counted its line twice
C28_OverwrittenArtifactDiffers ==
  /\ last.op = "process"
  /\ runs = 2
  /\ Len(data.documents) = 2
  /\ Cardinality(DOMAIN csv_dir) = 1
  /\ DOMAIN data.inventory = {<<"a", "b">>}
  /\ DOMAIN Recomputed(csv_dir) = {<<"a", "b">>}
  /\ data.inventory[<<"a", "b">>] = Num(250)
  /\ Recomputed(csv_dir)[<<"a", "b">>] = Num(125)

(* ---------------------------- C29 ---------------------------- *)

\* C29: registered documents and stored artifacts are in one-to-one
\* correspondence: every registered document references an existing artifact,
\* no two registered documents reference the same artifact, and every artifact
\* of the artifact directory is referenced by a registered document.
C29_DocumentsAndArtifactsCorrespond ==
  /\ \A i \in 1..Len(data.documents) : data.documents[i].csv_filename \in DOMAIN csv_dir
  /\ \A i, j \in 1..Len(data.documents) :
       i # j => data.documents[i].csv_filename # data.documents[j].csv_filename
  /\ \A f \in DOMAIN csv_dir :
       \E i \in 1..Len(data.documents) : data.documents[i].csv_filename = f

\* the same invoice was processed twice within one second: two registered
\* documents reference the one artifact
C29_TwoDocumentsOneArtifact ==
  /\ last.op = "process"
  /\ Len(data.documents) = 2
  /\ data.documents[1].csv_filename = data.documents[2].csv_filename
  /\ DOMAIN csv_dir = {data.documents[1].csv_filename}

====
